---- MODULE Spec2Model ----
(***************************************************************************)
(* Hand Music: the per-hand gesture controller (App.svelte), the sample    *)
(* selection and the ASR / crossfade playback engine (audio/engine.ts).    *)
(* Times are in milliseconds, gains and normalised positions in 1/1000.    *)
(***************************************************************************)
EXTENDS Integers, Sequences, FiniteSets, TLC

(***************************************************************************)
(* Bounds of the model.                                                    *)
(***************************************************************************)
MaxCands == 5

\* Latest time (ms) at which the model still takes steps.
MaxNow == 8000

\* Number of video frames the controller processes.
MaxFrames == 6

\* Number of direct calls (attack, release, stop, ...) made on an engine.
MaxCalls == 5

(***************************************************************************)
(* Small helpers.                                                          *)
(***************************************************************************)
Min2(a, b) == IF a < b THEN a ELSE b

Max2(a, b) == IF a > b THEN a ELSE b

Abs(a) == IF a < 0 THEN 0 - a ELSE a

SetMin(S) == CHOOSE x \in S : \A y \in S : x <= y

SetMax(S) == CHOOSE x \in S : \A y \in S : x >= y

\* Math.round on a non-negative rational num/den: nearest integer, halves up.
MathRound(num, den) == (2 * num + den) \div (2 * den)

(***************************************************************************)
(* Sample selection (engine.ts, getSampleByPitchGroupAndLayer).            *)
(***************************************************************************)
VARIABLES pkCatalog, pkGroup, pkLayer, pkMode, pkHandY, pkResult

pkVars == <<pkCatalog, pkGroup, pkLayer, pkMode, pkHandY, pkResult>>

SampleGroups == {"brass:trombone", "strings:cello", "strings:viola"}

PitchModes == {"low", "mid", "high", "all"}

ArticulationLayers == {"soft", "medium", "hard"}

\* MIDI pitches of the catalog entries the model draws from.
CatalogNotes == {48, 52, 55, 60, 64}

\* Hand heights (screen Y, 0 = top) in 1/1000.
HandYs == {0, 125, 250, 375, 500, 625, 750, 875, 1000}

NoPath == 0

FallbackCello == 901

FallbackViola == 902

FallbackTrombone == 903

\* noteToMidi inverted: the octave a MIDI note was parsed with.
OctaveOf(midi) == (midi \div 12) - 1

\* A SampleInfo: path is the position of the file in the sorted catalog list.
SampleInfo(midi, i) ==
  [path |-> i, midiNote |-> midi, octave |-> OctaveOf(midi), layer |-> "medium"]

\* The sorted per-group lists built by loadSampleManifest.
SortedCatalogs ==
  UNION {{[i \in 1..n |-> SampleInfo(f[i], i)] :
            f \in {g \in [1..n -> CatalogNotes] : \A i \in 1..(n - 1) : g[i] <= g[i + 1]}} :
         n \in 0..MaxCands}

\* The trombone folders by layer: the list with the samples spread over the
\* soft, medium and hard folders in turn.
spreadOverLayers(list) ==
  [i \in 1..Len(list) |->
     [list[i] EXCEPT !.layer = <<"soft", "medium", "hard">>[((i - 1) % 3) + 1]]]

\* Array.filter, keeping order.
RECURSIVE FilterSeq(_, _)
FilterSeq(list, keep) ==
  IF list = <<>> THEN <<>>
  ELSE IF keep[Head(list).path] THEN <<Head(list)>> \o FilterSeq(Tail(list), keep)
       ELSE FilterSeq(Tail(list), keep)

\* The k-th smallest element (0-based) of a set of integers.
RECURSIVE NthSmallest(_, _)
NthSmallest(S, k) == IF k = 0 THEN SetMin(S) ELSE NthSmallest(S \ {SetMin(S)}, k - 1)

FirstK(S, k) == {x \in S : Cardinality({y \in S : y < x}) < k}

\* A layer list that stays empty when the group has no sample of the layer.
layerOnly(flat, layer) ==
  FilterSeq(flat, [p \in 1..MaxCands + 1 |->
                     \E i \in 1..Len(flat) : flat[i].path = p /\ flat[i].layer = layer])

\* The per-layer list of a brass group built by loadSampleManifest: all
\* samples of the group when the layer has none.
layeredList(flat, layer) ==
  IF Len(layerOnly(flat, layer)) > 0 THEN layerOnly(flat, layer) ELSE flat

\* The candidates the selection starts from: the per-layer list of a brass
\* group, the whole list of a strings group.
candidatesOf(group, catalog, layer) ==
  IF group = "brass:trombone" THEN layeredList(catalog, layer) ELSE catalog

\* A pitch mode that restricts nothing.
pitchModeIgnored(list, mode, group) == list

applyPitchMode(list, mode, group) ==
  LET octaves == {list[i].octave : i \in 1..Len(list)}
      useOctaves == group = "brass:trombone" /\ Cardinality(octaves) >= 3
      targetOct == IF mode = "low" THEN SetMin(octaves)
                   ELSE IF mode = "high" THEN SetMax(octaves)
                   ELSE NthSmallest(octaves, Cardinality(octaves) \div 2)
      byOctave == FilterSeq(list, [p \in 1..MaxCands + 1 |->
                     \E i \in 1..Len(list) : list[i].path = p /\ list[i].octave = targetOct])
      uniqueMidi == {list[i].midiNote : i \in 1..Len(list)}
      n == Cardinality(uniqueMidi)
      base == n \div 3
      rem == n % 3
      lowCount == base + (IF rem > 0 THEN 1 ELSE 0)
      midCount == base + (IF rem > 1 THEN 1 ELSE 0)
      lowSet == FirstK(uniqueMidi, lowCount)
      midSet == FirstK(uniqueMidi, lowCount + midCount) \ lowSet
      highSet == uniqueMidi \ FirstK(uniqueMidi, lowCount + midCount)
      allowed == IF mode = "low" THEN lowSet ELSE IF mode = "high" THEN highSet ELSE midSet
      byBand == FilterSeq(list, [p \in 1..MaxCands + 1 |->
                     \E i \in 1..Len(list) : list[i].path = p /\ list[i].midiNote \in allowed])
  IN IF list = <<>> THEN list
     ELSE IF mode = "all" THEN list
     ELSE IF useOctaves THEN (IF Len(byOctave) > 0 THEN byOctave ELSE list)
     ELSE IF n <= 2 THEN list
     ELSE IF Len(byBand) > 0 THEN byBand ELSE list

\* candidates[i] of the source (0-based index).
MidiAt(candidates, i) == candidates[i + 1].midiNote

\* targetMidi = Math.round(minMidi + pitchPosition * (maxMidi - minMidi)).
targetMidiOf(candidates, handY) ==
  LET pitchPosition == 1000 - Max2(0, Min2(1000, handY))
      minMidi == MidiAt(candidates, 0)
      maxMidi == MidiAt(candidates, Len(candidates) - 1)
  IN MathRound(minMidi * 1000 + pitchPosition * (maxMidi - minMidi), 1000)

\* The binary search for the insertion point; the value of lo when it ends.
RECURSIVE binarySearch(_, _, _, _)
binarySearch(candidates, target, lo, hi) ==
  IF lo > hi THEN lo
  ELSE LET mid == (lo + hi) \div 2
           m == MidiAt(candidates, mid)
       IN IF m = target THEN mid
          ELSE IF m < target THEN binarySearch(candidates, target, mid + 1, hi)
          ELSE binarySearch(candidates, target, lo, mid - 1)

rightIdxOf(candidates, target) ==
  Min2(Max2(binarySearch(candidates, target, 0, Len(candidates) - 1), 0), Len(candidates) - 1)

leftIdxOf(candidates, target) == Max2(rightIdxOf(candidates, target) - 1, 0)

\* The MIDI notes chosenMidi can take (two on an exact tie: Math.random).
chosenMidiSet(candidates, target) ==
  LET leftMidi == MidiAt(candidates, leftIdxOf(candidates, target))
      rightMidi == MidiAt(candidates, rightIdxOf(candidates, target))
      leftDist == Abs(leftMidi - target)
      rightDist == Abs(rightMidi - target)
  IN IF leftDist < rightDist THEN {leftMidi}
     ELSE IF rightDist < leftDist THEN {rightMidi}
     ELSE {leftMidi, rightMidi}

\* start: from leftIdx, extended down while the neighbour has the chosen note.
RECURSIVE pickStart(_, _, _)
pickStart(candidates, chosenMidi, start) ==
  IF start > 0 /\ MidiAt(candidates, start - 1) = chosenMidi
  THEN pickStart(candidates, chosenMidi, start - 1)
  ELSE start

\* end: from rightIdx, extended up while the neighbour has the chosen note.
RECURSIVE pickEnd(_, _, _)
pickEnd(candidates, chosenMidi, end) ==
  IF end < Len(candidates) - 1 /\ MidiAt(candidates, end + 1) = chosenMidi
  THEN pickEnd(candidates, chosenMidi, end + 1)
  ELSE end

\* The indices pickIdx can take for one chosen note.
pickIdxSet(candidates, target, chosenMidi) ==
  pickStart(candidates, chosenMidi, leftIdxOf(candidates, target))
    .. pickEnd(candidates, chosenMidi, rightIdxOf(candidates, target))

\* Every path the function can return.
getSampleByPitchGroupAndLayer(handY, group, catalog, layer, pitchMode) ==
  IF Len(candidatesOf(group, catalog, layer)) = 0
  THEN {IF group = "strings:cello" THEN FallbackCello
        ELSE IF group = "strings:viola" THEN FallbackViola
        ELSE FallbackTrombone}
  ELSE LET candidates == applyPitchMode(candidatesOf(group, catalog, layer), pitchMode, group)
           target == targetMidiOf(candidates, handY)
       IN {candidates[i + 1].path :
             i \in UNION {pickIdxSet(candidates, target, c) : c \in chosenMidiSet(candidates, target)}}

PickInit ==
  /\ pkGroup \in SampleGroups
  /\ pkCatalog \in (IF pkGroup = "brass:trombone"
                    THEN SortedCatalogs \cup {spreadOverLayers(c) : c \in SortedCatalogs}
                    ELSE SortedCatalogs)
  /\ pkLayer \in ArticulationLayers
  /\ pkMode \in PitchModes
  /\ pkHandY \in HandYs
  /\ pkResult = NoPath

SelectSample ==
  /\ pkResult = NoPath
  /\ \E p \in getSampleByPitchGroupAndLayer(pkHandY, pkGroup, pkCatalog, pkLayer, pkMode) :
       pkResult' = p
  /\ UNCHANGED <<pkCatalog, pkGroup, pkLayer, pkMode, pkHandY>>

PickNext == SelectSample

\* The candidates and target the selection ran on.
PkCandidates == applyPitchMode(candidatesOf(pkGroup, pkCatalog, pkLayer), pkMode, pkGroup)

PkTarget == targetMidiOf(PkCandidates, pkHandY)

PkReturnedMidi == pkCatalog[pkResult].midiNote

PkSelected == pkResult # NoPath /\ Len(pkCatalog) > 0

PkNearest ==
  LET ms == {PkCandidates[i].midiNote : i \in 1..Len(PkCandidates)}
  IN {m \in ms : \A o \in ms : Abs(m - PkTarget) <= Abs(o - PkTarget)}

\* C4: when the nearest candidate pitch is unique (the two neighbours of the
\* target are at different distances), the returned sample has that pitch.
C4_NearestPitchReturned ==
  (PkSelected /\ Cardinality(PkNearest) = 1) => PkReturnedMidi \in PkNearest

(***************************************************************************)
(* Loop points (engine.ts findOptimalLoopPoints and the offline script     *)
(* compute-loop-points.js).  Times are in ticks of 1/3 ms, which both      *)
(* sample rates of the model divide; amplitudes are integers and an RMS    *)
(* value is kept in 1/100 of the amplitude unit, rounded down.             *)
(***************************************************************************)
VARIABLES lpBuffer, lpEngine, lpOffline

lpVars == <<lpBuffer, lpEngine, lpOffline>>

\* Samples shorter than 0.5 s play once and are not analysed (ms).
ASR_MIN_DURATION == 500

TicksPerSecond == 3000

TicksPerMs == 3

LOOP_START_PERCENT == 30

LOOP_END_PERCENT == 70

\* 0.15 s, 0.03 s and the 2 ms candidate step, in ms.
LOOP_SEARCH_WINDOW == 150

RMS_WINDOW == 30

CandidateStepMs == 2

\* 5 %; 0.4 s and 4.0 s in ms.
MAX_RMS_DIFF == 5

MIN_LOOP_LENGTH == 400

MAX_LOOP_LENGTH == 4000

Infinity == 1000000

NoResult == [isAcceptable |-> FALSE, loopStart |-> -1, loopEnd |-> -1]

\* A decoded buffer: the first channel is a1 before sample b and a2 from it.
AudioBuffer(sampleRate, length, a1, a2, b) ==
  [sampleRate |-> sampleRate, length |-> length, a1 |-> a1, a2 |-> a2, b |-> b]

channelDataAt(buf, i) == IF i < buf.b THEN buf.a1 ELSE buf.a2

\* Ticks of a sample position: sample / sampleRate seconds.
SecondsOf(buf, sample) == sample * (TicksPerSecond \div buf.sampleRate)

durationOf(buf) == SecondsOf(buf, buf.length)

\* Math.floor(seconds * sampleRate) of a time given in ticks.
SampleOf(buf, ticks) == (ticks * buf.sampleRate) \div TicksPerSecond

\* Math.sqrt, rounded down: the largest r in lo..hi with r * r <= n.
RECURSIVE sqrtBetween(_, _, _)
sqrtBetween(n, lo, hi) ==
  IF lo >= hi THEN lo
  ELSE IF ((lo + hi + 1) \div 2) * ((lo + hi + 1) \div 2) <= n
       THEN sqrtBetween(n, (lo + hi + 1) \div 2, hi)
       ELSE sqrtBetween(n, lo, (lo + hi + 1) \div 2 - 1)

\* The loop of calculateRMS.
RECURSIVE sumSquares(_, _, _)
sumSquares(buf, i, end) ==
  IF i > end THEN 0
  ELSE channelDataAt(buf, i) * channelDataAt(buf, i) + sumSquares(buf, i + 1, end)

calculateRMS(buf, centerSample, windowSamples) ==
  LET halfWindow == windowSamples \div 2
      start == Max2(0, centerSample - halfWindow)
      end == Min2(buf.length - 1, centerSample + halfWindow)
  IN sqrtBetween((sumSquares(buf, start, end) * 10000) \div (end - start + 1), 0, 4096)

\* The candidates from lo to hi, every step samples, with their RMS (built
\* by halves).
RECURSIVE loopCandidates(_, _, _, _, _)
loopCandidates(buf, lo, hi, step, rmsWindowSamples) ==
  IF lo > hi THEN <<>>
  ELSE IF lo + step > hi
  THEN <<[sample |-> lo, rms |-> calculateRMS(buf, lo, rmsWindowSamples)]>>
  ELSE loopCandidates(buf, lo, lo + (((hi - lo) \div step) \div 2) * step, step,
                      rmsWindowSamples)
         \o loopCandidates(buf, lo + (((hi - lo) \div step) \div 2 + 1) * step, hi, step,
                           rmsWindowSamples)

\* A pair replaces bestMatch only when its difference is strictly smaller, so
\* of two pairs the one met first stays unless the later one is better.
earlierMatch(first, later) == IF first.rmsDiff <= later.rmsDiff THEN first ELSE later

matchOf(startCandidate, endCandidate) ==
  [startSample |-> startCandidate.sample, endSample |-> endCandidate.sample,
   rmsDiff |-> Abs(startCandidate.rms - endCandidate.rms),
   startRMS |-> startCandidate.rms, endRMS |-> endCandidate.rms]

\* The inner loop of the search, over the end candidates lo..hi in order (the
\* range is halved to keep the evaluation shallow); bestMatch is the record
\* the search starts from.
RECURSIVE scanEnds(_, _, _, _, _)
scanEnds(startCandidate, endCandidates, lo, hi, bestMatch) ==
  IF lo > hi THEN bestMatch
  ELSE IF lo = hi THEN matchOf(startCandidate, endCandidates[lo])
  ELSE earlierMatch(scanEnds(startCandidate, endCandidates, lo, (lo + hi) \div 2, bestMatch),
                    scanEnds(startCandidate, endCandidates, (lo + hi) \div 2 + 1, hi,
                             bestMatch))

\* The outer loop of the search, over the start candidates lo..hi in order.
RECURSIVE scanStarts(_, _, _, _, _)
scanStarts(startCandidates, endCandidates, lo, hi, bestMatch) ==
  IF lo > hi THEN bestMatch
  ELSE IF lo = hi
  THEN scanEnds(startCandidates[lo], endCandidates, 1, Len(endCandidates), bestMatch)
  ELSE earlierMatch(scanStarts(startCandidates, endCandidates, lo, (lo + hi) \div 2,
                               bestMatch),
                    scanStarts(startCandidates, endCandidates, (lo + hi) \div 2 + 1, hi,
                               bestMatch))

\* The candidates of the search range around a target sample (startCandidates
\* and endCandidates).
candidatesAround(buf, targetStartSample) ==
  LET searchWindowSamples == (LOOP_SEARCH_WINDOW * buf.sampleRate) \div 1000
      rmsWindowSamples == (RMS_WINDOW * buf.sampleRate) \div 1000
  IN loopCandidates(buf, Max2(rmsWindowSamples, targetStartSample - searchWindowSamples),
                    Min2(buf.length - rmsWindowSamples - 1,
                         targetStartSample + searchWindowSamples),
                    (buf.sampleRate * CandidateStepMs) \div 1000, rmsWindowSamples)

\* The pair with the most similar RMS values, and its quality.
bestMatchOf(buf, targetStartSample, targetEndSample) ==
  scanStarts(candidatesAround(buf, targetStartSample),
             candidatesAround(buf, targetEndSample), 1,
             Len(candidatesAround(buf, targetStartSample)),
             [startSample |-> targetStartSample, endSample |-> targetEndSample,
              rmsDiff |-> Infinity, startRMS |-> 0, endRMS |-> 0])

\* isAcceptable; normalizedRmsDiff is rmsDiff / avgRMS when avgRMS > 0, else
\* rmsDiff itself.
acceptableMatch(buf, bestMatch) ==
  LET loopLength == SecondsOf(buf, bestMatch.endSample) - SecondsOf(buf, bestMatch.startSample)
  IN /\ IF bestMatch.startRMS + bestMatch.endRMS > 0
        THEN 200 * bestMatch.rmsDiff
               <= MAX_RMS_DIFF * (bestMatch.startRMS + bestMatch.endRMS)
        ELSE 100 * bestMatch.rmsDiff <= MAX_RMS_DIFF * 100
     /\ loopLength >= MIN_LOOP_LENGTH * TicksPerMs
     /\ loopLength <= MAX_LOOP_LENGTH * TicksPerMs

\* The result record of a match; rmsDiff and loopLength are not kept.
loopPointResult(buf, bestMatch) ==
  [loopStart |-> SecondsOf(buf, bestMatch.startSample),
   loopEnd |-> SecondsOf(buf, bestMatch.endSample),
   isAcceptable |-> acceptableMatch(buf, bestMatch)]

\* findOptimalLoopPoints of the engine; targetStart and targetEnd in ticks.
findOptimalLoopPoints(buf, targetStart, targetEnd) ==
  loopPointResult(buf, bestMatchOf(buf, SampleOf(buf, targetStart), SampleOf(buf, targetEnd)))

\* The offline script's result with the times left as they were found.
offlineUnrounded(buf, duration) ==
  findOptimalLoopPoints(buf, (duration * LOOP_START_PERCENT) \div 100,
                        (duration * LOOP_END_PERCENT) \div 100)

\* findOptimalLoopPoints of the offline script: it computes the targets from
\* the duration and rounds the times to the millisecond.
offlineFindOptimalLoopPoints(buf, duration) ==
  LET r == offlineUnrounded(buf, duration)
  IN [r EXCEPT !.loopStart = MathRound(@, TicksPerMs) * TicksPerMs,
               !.loopEnd = MathRound(@, TicksPerMs) * TicksPerMs]

\* The buffers analysed: 0.5 s, 1.01 s, 10 s and 11 s at 1000 and 1500
\* samples per second; level, a small step, a large step, silence; the step
\* in the middle or 7 samples after the start target.
LoopBuffers ==
  {AudioBuffer(sr, (d * sr) \div 1000, lv[1], lv[2],
               IF middle THEN (d * sr) \div 2000 ELSE (3 * ((d * sr) \div 1000)) \div 10 + 7) :
     sr \in {1000, 1500}, d \in {500, 1010, 10000, 11000},
     lv \in {<<20, 20>>, <<20, 21>>, <<20, 22>>, <<0, 0>>}, middle \in BOOLEAN}

LoopInit ==
  /\ lpBuffer \in LoopBuffers
  /\ lpEngine = NoResult
  /\ lpOffline = NoResult

LoopIdle ==
  /\ lpBuffer = AudioBuffer(1000, 500, 0, 0, 0)
  /\ lpEngine = NoResult
  /\ lpOffline = NoResult

\* loadNewSample analyses the decoded buffer of a sample long enough to loop.
AnalyseInEngine ==
  /\ lpEngine = NoResult
  /\ durationOf(lpBuffer) >= ASR_MIN_DURATION * TicksPerMs
  /\ lpEngine' = findOptimalLoopPoints(lpBuffer,
                                       (durationOf(lpBuffer) * LOOP_START_PERCENT) \div 100,
                                       (durationOf(lpBuffer) * LOOP_END_PERCENT) \div 100)
  /\ UNCHANGED <<lpBuffer, lpOffline>>

\* processFile of the offline script analyses the same file.
AnalyseOffline ==
  /\ lpOffline = NoResult
  /\ durationOf(lpBuffer) >= ASR_MIN_DURATION * TicksPerMs
  /\ lpOffline' = offlineFindOptimalLoopPoints(lpBuffer, durationOf(lpBuffer))
  /\ UNCHANGED <<lpBuffer, lpEngine>>

(***************************************************************************)
(* Playback engine (engine.ts): lane gains, source nodes and timers.       *)
(***************************************************************************)
CROSSFADE_DURATION == 150

RETRIGGER_CROSSFADE_DURATION == 120

FADE_OUT_DURATION == 100

DECLICK_STOP_DURATION == 10

\* Sample files: whether loadAudioBuffer fetches and decodes the file, its
\* duration and the loop points findOptimalLoopPoints returns for it (ms).
\* Index = the path loadNewSample selected.  File 4 loops badly; file 5 is
\* missing or corrupt; file 6 is the half-second recording HalfSecondBuffer
\* with the loop points findOptimalLoopPoints finds in it.
SampleFiles ==
  << [decodes |-> TRUE, duration |-> 1000, loopStart |-> 450, loopEnd |-> 850,
      isAcceptable |-> TRUE],
     [decodes |-> TRUE, duration |-> 400, loopStart |-> 120, loopEnd |-> 280,
      isAcceptable |-> TRUE],
     [decodes |-> TRUE, duration |-> 4000, loopStart |-> 1050, loopEnd |-> 2950,
      isAcceptable |-> TRUE],
     [decodes |-> TRUE, duration |-> 1000, loopStart |-> 300, loopEnd |-> 750,
      isAcceptable |-> FALSE],
     [decodes |-> FALSE, duration |-> 0, loopStart |-> 0, loopEnd |-> 0,
      isAcceptable |-> FALSE],
     [decodes |-> TRUE, duration |-> 500, loopStart |-> 172, loopEnd |-> 200,
      isAcceptable |-> FALSE] >>

HalfSecondBuffer == AudioBuffer(1000, 500, 20, 22, 157)

\* The file of a decoded buffer as loadNewSample analyses it, in ms.
AnalysedFile(buf) ==
  LET optimal == findOptimalLoopPoints(buf, (durationOf(buf) * LOOP_START_PERCENT) \div 100,
                                       (durationOf(buf) * LOOP_END_PERCENT) \div 100)
  IN [decodes |-> TRUE, duration |-> durationOf(buf) \div TicksPerMs,
      loopStart |-> optimal.loopStart \div TicksPerMs,
      loopEnd |-> optimal.loopEnd \div TicksPerMs,
      isAcceptable |-> optimal.isAcceptable]

\* File 6 is HalfSecondBuffer as loadNewSample analyses it.
HalfSecondFileAnalysed == SampleFiles[6] = AnalysedFile(HalfSecondBuffer)

MAX_SAMPLE_RETRIES == 5

NoBuffer == 0

NoNode == 0

NoTimer == 0

\* --- AudioParam automation of a lane GainNode ---------------------------
\* A gain param is [base, tl]: the value it was last assigned and its timeline,
\* a sequence of events [t, v, ramp] ordered by time t, each a
\* setValueAtTime(v, t) or a linearRampToValueAtTime(v, t).
SetEvent(v, t) == [t |-> t, v |-> v, ramp |-> FALSE]

RampEvent(v, t) == [t |-> t, v |-> v, ramp |-> TRUE]

NewGain(v) == [base |-> v, tl |-> <<>>]

\* Number of events of the timeline with time <= T.
RECURSIVE EventsUpTo(_, _)
EventsUpTo(tl, T) ==
  IF tl = <<>> \/ Head(tl).t > T THEN 0 ELSE 1 + EventsUpTo(Tail(tl), T)

\* gain.value as rendered at time T.
GainAt(g, T) ==
  LET tl == g.tl
      i == EventsUpTo(tl, T)
      v0 == IF i = 0 THEN g.base ELSE tl[i].v
  IN IF i < Len(tl) /\ tl[i + 1].ramp /\ i > 0
     THEN v0 + ((tl[i + 1].v - v0) * (T - tl[i].t)) \div (tl[i + 1].t - tl[i].t)
     ELSE v0

\* The audio thread has rendered up to T: the events that no longer influence
\* the value from T on are dropped, the last of them kept as the starting point.
Forget(g, T) ==
  LET i == EventsUpTo(g.tl, T)
  IN IF i = 0 THEN g
     ELSE [base |-> g.tl[i].v,
           tl |-> <<SetEvent(g.tl[i].v, g.tl[i].t)>> \o SubSeq(g.tl, i + 1, Len(g.tl))]

\* Insert an event in time order, after the events with the same time.
InsertEvent(g, e) ==
  LET i == EventsUpTo(g.tl, e.t)
  IN [g EXCEPT !.tl = SubSeq(g.tl, 1, i) \o <<e>> \o SubSeq(g.tl, i + 1, Len(g.tl))]

setValueAtTime(g, v, t) == InsertEvent(g, SetEvent(v, t))

linearRampToValueAtTime(g, v, t) == InsertEvent(g, RampEvent(v, t))

\* cancelScheduledValues(t): the events at or after t are removed.
cancelScheduledValues(g, t) == [g EXCEPT !.tl = SubSeq(g.tl, 1, EventsUpTo(g.tl, t - 1))]

\* gain.value = v at time t.
setValue(g, v, t) == InsertEvent([g EXCEPT !.base = v], SetEvent(v, t))

\* A lane is silent when its gain is below 0.001.
Silent(g, T) == GainAt(g, T) < 1

\* --- The AudioEngine object ----------------------------------------------
\* graph is TRUE while the signal graph nodes (sourceGain1, sourceGain2, ...)
\* exist.  sources lists every AudioBufferSourceNode created, in order; a node
\* is named by its position.  timers is the set of pending setTimeout calls,
\* loads the loadNewSample calls awaiting their fetch and decode.
\* bufferGroup is the sample group the file in buffer was selected from.
createAudioEngine ==
  [ isRunning |-> FALSE, isLoaded |-> FALSE, graph |-> FALSE,
    buffer |-> NoBuffer, bufferGroup |-> "brass:trombone", currentSample |-> NoPath,
    instrumentMode |-> "brass", currentGroup |-> "brass:trombone",
    playState |-> "idle", loopStart |-> 0, loopEnd |-> 0, useASR |-> FALSE,
    loopSchedulerId |-> NoTimer, activeSource |-> 1,
    sourceNode |-> NoNode, sourceNode2 |-> NoNode,
    sourceGain1 |-> NewGain(0), sourceGain2 |-> NewGain(0),
    sources |-> <<>>, timers |-> {}, nextTimerId |-> 1, loads |-> <<>> ]

Slot(e, k) == IF k = 1 THEN e.sourceNode ELSE e.sourceNode2

SetSlot(e, k, node) ==
  IF k = 1 THEN [e EXCEPT !.sourceNode = node] ELSE [e EXCEPT !.sourceNode2 = node]

LaneGain(e, k) == IF k = 1 THEN e.sourceGain1 ELSE e.sourceGain2

SetLaneGain(e, k, g) ==
  IF k = 1 THEN [e EXCEPT !.sourceGain1 = g] ELSE [e EXCEPT !.sourceGain2 = g]

OtherLane(k) == IF k = 1 THEN 2 ELSE 1

\* window.setTimeout(callback, delay): the new timer has id e.nextTimerId.
setTimeout(e, now, delay, kind, node, slot) ==
  [e EXCEPT !.timers = @ \cup {[id |-> e.nextTimerId, at |-> now + Max2(0, delay),
                               kind |-> kind, node |-> node, slot |-> slot]},
            !.nextTimerId = @ + 1]

\* A clearTimeout that leaves the timer pending.
clearTimeoutIgnored(e, id) == e

clearTimeout(e, id) == [e EXCEPT !.timers = {t \in @ : t.id # id}]

\* ctx.createBufferSource + connect(lane gain) + start(when, startOffset).
\* The new node is Len(e.sources) + 1; createdAt is the time of the call,
\* startAt the time the node begins to play, endAt the time its buffer runs out.
createSource(e, now, startOffset, lane, when) ==
  LET startAt == Max2(when, now)
  IN [e EXCEPT !.sources = Append(@,
        [lane |-> lane, offset |-> startOffset, createdAt |-> now, startAt |-> startAt,
         endAt |-> startAt + Max2(0, SampleFiles[e.buffer].duration - startOffset),
         st |-> "playing", onended |-> "none", slot |-> 0])]

NewestNode(e) == Len(e.sources)

\* node.onended = ... (kind names the handler, slot its captured slot).
setOnEnded(e, node, kind, slot) ==
  [e EXCEPT !.sources[node].onended = kind, !.sources[node].slot = slot]

attachEndedCleanup(e, node, slot) ==
  IF e.sources[node].onended # "none" THEN e ELSE setOnEnded(e, node, "cleanup", slot)

\* node.stop(); node.disconnect(): a playing node stops and its ended event
\* is queued; on a node that already stopped or ended nothing happens.
safeStopAndDisconnect(e, node) ==
  IF node # NoNode /\ e.sources[node].st = "playing"
  THEN [e EXCEPT !.sources[node].st = "stopped"]
  ELSE e

stopSourceNodes(e, now) ==
  LET e1 == SetSlot(safeStopAndDisconnect(e, e.sourceNode), 1, NoNode)
      e2 == SetSlot(safeStopAndDisconnect(e1, e1.sourceNode2), 2, NoNode)
      e3 == IF e2.graph
            THEN [e2 EXCEPT !.sourceGain1 = setValue(@, 1000, now),
                            !.sourceGain2 = setValue(@, 0, now)]
            ELSE e2
  IN [e3 EXCEPT !.activeSource = 1]

\* Fade one lane to 0 over d ms from its present value.
FadeOut(g, now, d) ==
  linearRampToValueAtTime(setValueAtTime(g, GainAt(g, now), now), 0, now + d)

stopCurrentSound(e, now, fade) ==
  LET e1 == IF e.loopSchedulerId # NoTimer
            THEN [clearTimeout(e, e.loopSchedulerId) EXCEPT !.loopSchedulerId = NoTimer]
            ELSE e
      d == IF fade /\ e1.graph THEN FADE_OUT_DURATION ELSE DECLICK_STOP_DURATION
      e2 == IF e1.graph
            THEN [e1 EXCEPT !.sourceGain1 = FadeOut(@, now, d),
                            !.sourceGain2 = FadeOut(@, now, d)]
            ELSE e1
  IN setTimeout(e2, now, IF fade /\ e1.graph THEN FADE_OUT_DURATION + 50
                                             ELSE DECLICK_STOP_DURATION + 20,
                "stopSourceNodes", NoNode, 0)

\* The family of samples loadNewSample selects from.  In strings mode
\* Math.random() decides between cello and viola; pick is a file of the group
\* chosen: the odd files stand for cello samples, the even ones for viola.
groupFor(instrumentMode, pick) ==
  IF instrumentMode = "strings"
  THEN IF pick % 2 = 1 THEN "strings:cello" ELSE "strings:viola"
  ELSE "brass:trombone"

\* The start of loadNewSample: the selection of a sample and the request for
\* it; pick is the path getSampleByPitchGroupAndLayer returned.
\* was records the currentSample the engine had when the first call of the
\* retry chain (retryCount 0) was made.
\* then names what awaits the completion of the call: "swapRight" for the
\* toggleInstrumentMode that goes on to audioComponent2.changeSample().
loadNewSample(e, pick, retryCount) ==
  [e EXCEPT !.currentGroup = groupFor(e.instrumentMode, pick),
            !.currentSample = pick,
            !.loads = Append(@, [path |-> pick, retryCount |-> retryCount,
                                 group |-> groupFor(e.instrumentMode, pick),
                                 was |-> e.currentSample, then |-> "none"])]

\* The recursive call of loadNewSample after a rejected or failed load ld.
retryLoad(e, ld, pick) ==
  [loadNewSample(e, pick, ld.retryCount + 1) EXCEPT !.loads[Len(e.loads) + 1].was = ld.was,
                                                   !.loads[Len(e.loads) + 1].then = ld.then]

\* A load that takes whatever loop points were found, without any retry.
loadAcceptedUnchecked(e, i, pick) ==
  LET ld == e.loads[i]
      file == SampleFiles[ld.path]
      rest == [e EXCEPT !.loads = SubSeq(@, 1, i - 1) \o SubSeq(@, i + 1, Len(@))]
  IN IF ~file.decodes
     THEN IF ld.retryCount < MAX_SAMPLE_RETRIES THEN retryLoad(rest, ld, pick) ELSE rest
     ELSE IF file.duration >= ASR_MIN_DURATION
     THEN [rest EXCEPT !.buffer = ld.path, !.bufferGroup = ld.group,
                       !.useASR = TRUE, !.loopStart = file.loopStart,
                       !.loopEnd = file.loopEnd, !.isLoaded = TRUE]
     ELSE [rest EXCEPT !.buffer = ld.path, !.bufferGroup = ld.group,
                       !.useASR = FALSE, !.loopStart = 0,
                       !.loopEnd = file.duration, !.isLoaded = TRUE]

\* The rest of loadNewSample once the fetch and decode of load i have
\* completed or failed; pick is the selection of the retry, if one is made.
loadNewSampleDecoded(e, i, pick) ==
  LET ld == e.loads[i]
      file == SampleFiles[ld.path]
      rest == [e EXCEPT !.loads = SubSeq(@, 1, i - 1) \o SubSeq(@, i + 1, Len(@))]
      useASR == file.duration >= ASR_MIN_DURATION
  IN IF ~file.decodes
     THEN IF ld.retryCount < MAX_SAMPLE_RETRIES THEN retryLoad(rest, ld, pick) ELSE rest
     ELSE IF useASR /\ ~file.isAcceptable /\ ld.retryCount < MAX_SAMPLE_RETRIES
     THEN retryLoad(rest, ld, pick)
     ELSE IF useASR
     THEN [rest EXCEPT !.buffer = ld.path, !.bufferGroup = ld.group,
                       !.useASR = TRUE, !.loopStart = file.loopStart,
                       !.loopEnd = file.loopEnd, !.isLoaded = TRUE]
     ELSE [rest EXCEPT !.buffer = ld.path, !.bufferGroup = ld.group,
                       !.useASR = FALSE, !.loopStart = 0,
                       !.loopEnd = file.duration, !.isLoaded = TRUE]

\* The body of the loop timers armed by scheduleNextLoop and by the sustain
\* timers: the delay until the next crossfade.
timeUntilCrossfade(e) == (e.loopEnd - e.loopStart) - CROSSFADE_DURATION

scheduleNextLoop(e, now) ==
  IF e.playState # "sustain" \/ e.buffer = NoBuffer THEN e
  ELSE [setTimeout(e, now, timeUntilCrossfade(e), "loop", NoNode, 0)
          EXCEPT !.loopSchedulerId = e.nextTimerId]

performCrossfade(e, now) ==
  IF e.buffer = NoBuffer \/ ~e.graph THEN e
  ELSE
    LET from == e.activeSource
        to == OtherLane(from)
        old == Slot(e, from)
        e1 == createSource(e, now, e.loopStart, to, 0)
        e2 == attachEndedCleanup(SetSlot(e1, to, NewestNode(e1)), NewestNode(e1), to)
        gOut == linearRampToValueAtTime(setValueAtTime(LaneGain(e2, from), 1000, now),
                                        0, now + CROSSFADE_DURATION)
        gIn == linearRampToValueAtTime(setValueAtTime(LaneGain(e2, to), 0, now),
                                       1000, now + CROSSFADE_DURATION)
        e3 == SetLaneGain(SetLaneGain(e2, from, gOut), to, gIn)
        e4 == setTimeout(e3, now, CROSSFADE_DURATION + 50, "crossfadeCleanup", old, from)
  IN scheduleNextLoop([e4 EXCEPT !.activeSource = to], now)

\* An engine that ignores an attack requested during release.
retriggerIgnored(e, now) == e

\* The retrigger branch of triggerAttack (attack requested during release).
retrigger(e, now) ==
  LET e0 == IF e.loopSchedulerId # NoTimer
            THEN [clearTimeout(e, e.loopSchedulerId) EXCEPT !.loopSchedulerId = NoTimer]
            ELSE e
      stopAt == now + DECLICK_STOP_DURATION
      attackLane == e0.activeSource
      releaseLane == OtherLane(e0.activeSource)
      releaseSource == Slot(e0, releaseLane)
      oldAttack == Slot(e0, attackLane)
      releaseValue == GainAt(LaneGain(e0, releaseLane), now)
      \* de-click of the old note's source on the attack lane
      gA1 == IF oldAttack # NoNode
             THEN linearRampToValueAtTime(
                    setValueAtTime(cancelScheduledValues(LaneGain(e0, attackLane), now),
                                   GainAt(LaneGain(e0, attackLane), now), now),
                    0, stopAt)
             ELSE LaneGain(e0, attackLane)
      e1 == IF oldAttack # NoNode
            THEN setTimeout(e0, now, DECLICK_STOP_DURATION + 20, "oldAttackStop",
                            oldAttack, attackLane)
            ELSE e0
      gA2 == linearRampToValueAtTime(setValueAtTime(gA1, 0, stopAt),
                                     1000, stopAt + RETRIGGER_CROSSFADE_DURATION)
      gR == linearRampToValueAtTime(
              setValueAtTime(cancelScheduledValues(LaneGain(e0, releaseLane), now),
                             releaseValue, now),
              0, stopAt + RETRIGGER_CROSSFADE_DURATION)
      e2 == createSource(e1, now, 0, attackLane, stopAt)
      e3 == attachEndedCleanup(SetSlot(e2, attackLane, NewestNode(e2)),
                               NewestNode(e2), attackLane)
      e4 == SetLaneGain(SetLaneGain(e3, attackLane, gA2), releaseLane, gR)
      e5 == IF releaseSource # NoNode
            THEN setTimeout(e4, now, RETRIGGER_CROSSFADE_DURATION + 50, "retriggerCleanup",
                            releaseSource, releaseLane)
            ELSE e4
  IN setTimeout([e5 EXCEPT !.playState = "attack"], now, e5.loopStart, "sustain", NoNode, 0)

\* The part of triggerAttack that starts a note from idle.
startNote(e, now) ==
  IF e.useASR
  THEN LET e1 == [e EXCEPT !.sourceGain1 = setValue(@, 1000, now),
                           !.sourceGain2 = setValue(@, 0, now),
                           !.activeSource = 1]
           e2 == createSource(e1, now, 0, 1, 0)
           e3 == attachEndedCleanup(SetSlot(e2, 1, NewestNode(e2)), NewestNode(e2), 1)
       IN setTimeout([e3 EXCEPT !.playState = "attack"], now, e3.loopStart,
                     "sustain", NoNode, 0)
  ELSE LET e1 == [e EXCEPT !.sourceGain1 = setValue(@, 1000, now)]
           e2 == createSource(e1, now, 0, 1, 0)
           e3 == setOnEnded(SetSlot(e2, 1, NewestNode(e2)), NewestNode(e2), "oneShot", 0)
       IN [e3 EXCEPT !.playState = "sustain"]

\* An attack that starts a note whatever is playing.
attackRefusedWithoutSource(e, now) ==
  IF ~e.isRunning \/ ~e.isLoaded \/ e.buffer = NoBuffer \/ ~e.graph THEN e
  ELSE IF e.playState = "release" /\ e.useASR THEN retrigger(e, now)
  ELSE IF e.playState # "idle"
  THEN IF e.sourceNode = NoNode /\ e.sourceNode2 = NoNode
       THEN e
       ELSE IF Silent(e.sourceGain1, now) /\ Silent(e.sourceGain2, now)
            THEN startNote([stopCurrentSound(e, now, TRUE) EXCEPT !.playState = "idle"], now)
            ELSE e
  ELSE startNote(e, now)

attackAlwaysStarts(e, now) ==
  IF ~e.isRunning \/ ~e.isLoaded \/ e.buffer = NoBuffer \/ ~e.graph THEN e
  ELSE startNote(e, now)

triggerAttack(e, now) ==
  IF ~e.isRunning \/ ~e.isLoaded \/ e.buffer = NoBuffer \/ ~e.graph THEN e
  ELSE IF e.playState = "release" /\ e.useASR THEN retrigger(e, now)
  ELSE IF e.playState # "idle"
  THEN IF e.sourceNode = NoNode /\ e.sourceNode2 = NoNode
       THEN startNote([e EXCEPT !.playState = "idle"], now)
       ELSE IF Silent(e.sourceGain1, now) /\ Silent(e.sourceGain2, now)
            THEN startNote([stopCurrentSound(e, now, TRUE) EXCEPT !.playState = "idle"], now)
            ELSE e
  ELSE startNote(e, now)

\* The part of triggerRelease that ends the note being played.
startRelease(e, now) ==
  IF e.useASR /\ e.graph
  THEN LET e0 == IF e.loopSchedulerId # NoTimer
                 THEN [clearTimeout(e, e.loopSchedulerId) EXCEPT !.loopSchedulerId = NoTimer]
                 ELSE e
           current == e0.activeSource
           releaseLane == OtherLane(current)
           oldSource == Slot(e0, current)
           e1 == createSource([e0 EXCEPT !.playState = "release"], now, e0.loopEnd,
                              releaseLane, 0)
           releaseSource == NewestNode(e1)
           e2 == SetSlot(e1, releaseLane, releaseSource)
           gCur == linearRampToValueAtTime(
                     setValueAtTime(cancelScheduledValues(LaneGain(e2, current), now),
                                    GainAt(LaneGain(e2, current), now), now),
                     0, now + CROSSFADE_DURATION)
           gRel == linearRampToValueAtTime(
                     setValueAtTime(cancelScheduledValues(LaneGain(e2, releaseLane), now),
                                    0, now),
                     1000, now + CROSSFADE_DURATION)
           e3 == SetLaneGain(SetLaneGain(e2, current, gCur), releaseLane, gRel)
           e4 == setTimeout(e3, now, CROSSFADE_DURATION + 50, "releaseCleanup", oldSource, 0)
       IN setOnEnded(e4, releaseSource, "releaseEnded", 0)
  ELSE LET e1 == stopCurrentSound(e, now, TRUE)
           e2 == [e1 EXCEPT !.playState = "idle", !.sourceNode = NoNode,
                            !.sourceNode2 = NoNode]
       IN setTimeout(e2, now, FADE_OUT_DURATION + 50, "loadNewSample", NoNode, 0)

\* A release that does not look at playState.
releaseUnguarded(e, now) ==
  IF ~e.isRunning \/ e.buffer = NoBuffer THEN e ELSE startRelease(e, now)

triggerRelease(e, now) ==
  IF ~e.isRunning \/ e.buffer = NoBuffer THEN e
  ELSE IF e.playState = "idle" \/ e.playState = "release" THEN e
  ELSE startRelease(e, now)

\* startAudio once Tone and the manifest are ready: the graph is built and the
\* initial sample requested.
startAudio(e, now, pick) ==
  IF e.isRunning THEN e
  ELSE loadNewSample([e EXCEPT !.graph = TRUE,
                               !.sourceGain1 = setValue(NewGain(1000), 1000, now),
                               !.sourceGain2 = setValue(NewGain(0), 0, now),
                               !.isRunning = TRUE], pick, 0)

stopAudio(e, now) ==
  IF ~e.isRunning THEN e
  ELSE [stopCurrentSound(e, now, TRUE) EXCEPT
          !.graph = FALSE, !.sourceGain1 = NewGain(0), !.sourceGain2 = NewGain(0),
          !.buffer = NoBuffer, !.isRunning = FALSE, !.isLoaded = FALSE,
          !.currentSample = NoPath, !.playState = "idle"]

setInstrumentMode(e, mode) == [e EXCEPT !.instrumentMode = mode]

swapSample(e, now, pick) ==
  IF ~e.isRunning THEN e
  ELSE loadNewSample([stopCurrentSound(e, now, TRUE) EXCEPT !.playState = "idle"], pick, 0)

\* Clearing of a tracked slot that still points at the node.
ClearSlotIf(e, k, node) == IF Slot(e, k) = node THEN SetSlot(e, k, NoNode) ELSE e

\* The callback of a pending timer tm, run at time now (tm is removed first).
timerCallback(e0, tm, now, pick) ==
  LET e == [e0 EXCEPT !.timers = @ \ {tm}]
  IN CASE tm.kind = "sustain" ->
            IF e.playState = "attack"
            THEN [setTimeout([e EXCEPT !.playState = "sustain"], now,
                             timeUntilCrossfade(e), "loop", NoNode, 0)
                    EXCEPT !.loopSchedulerId = e.nextTimerId]
            ELSE e
       [] tm.kind = "loop" ->
            IF e.playState = "sustain" THEN performCrossfade(e, now) ELSE e
       [] tm.kind \in {"crossfadeCleanup", "oldAttackStop", "retriggerCleanup"} ->
            IF tm.node # NoNode
            THEN ClearSlotIf(safeStopAndDisconnect(e, tm.node), tm.slot, tm.node)
            ELSE e
       [] tm.kind = "releaseCleanup" ->
            IF tm.node = NoNode THEN e
            ELSE ClearSlotIf(ClearSlotIf(safeStopAndDisconnect(e, tm.node), 1, tm.node),
                             2, tm.node)
       [] tm.kind = "stopSourceNodes" -> stopSourceNodes(e, now)
       [] tm.kind = "loadNewSample" -> loadNewSample(e, pick, 0)

\* The onended handler of a node, run once the node has ended or was stopped.
onended(e0, node, now, pick) ==
  LET e == [e0 EXCEPT !.sources[node].st = "ended"]
      kind == e0.sources[node].onended
  IN CASE kind = "cleanup" -> ClearSlotIf(e, e0.sources[node].slot, node)
       [] kind = "releaseEnded" ->
            LET e1 == ClearSlotIf(ClearSlotIf(e, 1, node), 2, node)
            IN IF e1.playState = "release"
               THEN loadNewSample(
                      [e1 EXCEPT !.playState = "idle", !.sourceNode = NoNode,
                                 !.sourceNode2 = NoNode,
                                 !.sourceGain1 = setValue(@, 1000, now),
                                 !.sourceGain2 = setValue(@, 0, now),
                                 !.activeSource = 1], pick, 0)
               ELSE e1
       [] kind = "oneShot" ->
            LET e1 == [e EXCEPT !.sourceNode = NoNode]
            IN IF e1.playState # "idle"
               THEN loadNewSample([e1 EXCEPT !.playState = "idle"], pick, 0)
               ELSE e1
       [] OTHER -> e

(***************************************************************************)
(* Gesture controller (App.svelte): HandState, processHand and             *)
(* handleTrackingResult.  Openness is in 1/1000 of the image size.         *)
(***************************************************************************)
OPENNESS_SMOOTHING == 35

OPENNESS_MIN == 80

OPENNESS_MAX == 180

MAX_GAIN == 1000

MIN_PLAYING_GAIN == 250

RELEASE_GAIN == 500

FIST_CLOSED_THRESHOLD == 90

HAND_OPEN_THRESHOLD == 120

RELEASE_TIMEOUT_MS == 2000

OPEN_CONFIRM_MS == 35

OPEN_CONFIRM_MS_RELEASE == 25

CLOSED_CONFIRM_MS == 90

TRACKING_LOSS_GRACE_MS == 600

TRACKING_LOSS_MAX_HOLD_MS == 3000

\* dt of the first frame of a HandState (0.033 s).
DEFAULT_DT_MS == 33

\* The weight of the new gain in the one-pole gain smoothing (0.22).
GAIN_SMOOTHING == 22

\* The weight of the new palm rotation in its smoothing (0.3).
ROTATION_SMOOTHING == 30

\* The weight of a faster velocity in the velocity smoothing (0.1), in 1/100.
VELOCITY_SMOOTHING == 10

\* 2.0 image sizes per second, in 1/1000 per second.
MAX_VELOCITY == 2000

\* 8 cents, in millionths of a semitone.
VIBRATO_MAX_CENTS == 80000

VIBRATO_VEL_THRESHOLD == 380

\* 5 Hz, in mHz.
VIBRATO_FLIP_HZ_THRESHOLD == 5000

\* The weight of a measured flip rate in its smoothing (0.25), in 1/100.
VIBRATO_FLIP_HZ_SMOOTH == 25

\* 14 cents per image size per second: millionths of a semitone per 1/1000
\* of the image size per second.
VIBRATO_CENTS_PER_VEL == 140

VIBRATO_PITCH_SMOOTH_ATTACK == 25

VIBRATO_PITCH_SMOOTH_RELEASE == 55

VIBRATO_RECENT_FLIP_MS == 140

\* The time constants of the vibrato, in ms.
VIBRATO_FLIP_DECAY_SEC == 100

VIBRATO_LP_TAU_BASE == 80

VIBRATO_LP_TAU_FAST == 220

\* 0.35 semitones per second: millionths of a semitone per ms.
VIBRATO_SLEW_SEMITONES_PER_SEC == 350

TRAIL_FADE_MS == 450

TRAIL_POINT_MIN_DIST == 3

REVERB_MAX_MIX == 750

\* The shortest and the longest reverb tail, in ms.
REVERB_MIN_TAIL == 300

REVERB_MAX_TAIL == 6000

\* Two image heights of trail, in 1/1000.
REVERB_MAX_TRAIL_HEIGHTS == 2000

\* The weight of the mapped mix in its smoothing (0.08), in 1/100.
REVERB_MIX_SMOOTH == 8

REVERB_DECAY_DURING_PLAY == 1000

Handedness == {"Left", "Right"}

NoHand == "none"

\* AudioParams: gain, filterCutoff, delayTime, feedback and reverbMix are in
\* 1/1000, pitchShift is in millionths of a semitone, reverbDecay in ms.
AudioParams(pitchShift, gain, filterCutoff, delayTime, feedback, reverbMix, reverbDecay) ==
  [pitchShift |-> pitchShift, gain |-> gain, filterCutoff |-> filterCutoff,
   delayTime |-> delayTime, feedback |-> feedback, reverbMix |-> reverbMix,
   reverbDecay |-> reverbDecay]

SilentParams == AudioParams(0, 0, 1000, 0, 0, 0, 1000)

\* prevHandPos = null
NoPos == <<>>

\* Velocities are in 1/1000 of the image size per second, flipHzEma is in
\* mHz, smoothedPitch and pitchTargetLp are in millionths of a semitone.
createHandState ==
  [ smoothedOpenness |-> 0, wasPlaying |-> FALSE, isInRelease |-> FALSE,
    releaseStartTime |-> 0, lastTimestamp |-> 0, lastSeenMs |-> 0,
    lastParams |-> SilentParams, openConfirmMs |-> 0, closedConfirmMs |-> 0,
    gainSmooth |-> 0, smoothedPalmRotation |-> 500,
    smoothedPitch |-> 0, prevHandPos |-> NoPos, smoothedVelocity |-> 0,
    prevYVelocity |-> 0, lastFlipMs |-> 0, flipHzEma |-> 0, pitchTargetLp |-> 0,
    reverbMixSmooth |-> 0 ]

\* floor(sqrt(n)) by bisection on lo..hi.
RECURSIVE ISqrt(_, _, _)
ISqrt(n, lo, hi) ==
  IF lo >= hi THEN lo
  ELSE LET mid == (lo + hi + 1) \div 2
       IN IF mid * mid <= n THEN ISqrt(n, mid, hi) ELSE ISqrt(n, lo, mid - 1)

\* Math.pow(x, 0.5) on x in 1/1000, result in 1/1000.
curvedGainOf(normalizedOpenness) == ISqrt(normalizedOpenness * 1000, 0, 1000)

normalizedOpennessOf(openness) ==
  Max2(0, Min2(((openness - OPENNESS_MIN) * 1000) \div (OPENNESS_MAX - OPENNESS_MIN), 1000))

\* sensitivity is opennessSensitivity in tenths (10 = 1.0x, 25 = 2.5x).
isFistClosedRaw(openness, sensitivity) ==
  openness * 10 < FIST_CLOSED_THRESHOLD * Max2(10, sensitivity)

isHandOpenRaw(openness) == openness > HAND_OPEN_THRESHOLD

openCandidateOf(openness, sensitivity) ==
  isHandOpenRaw(openness) /\ ~isFistClosedRaw(openness, sensitivity)

closedCandidateOf(openness, sensitivity) ==
  isFistClosedRaw(openness, sensitivity) /\ ~isHandOpenRaw(openness)

\* A counter that keeps its progress when the candidate does not hold.
confirmMsKept(candidate, previous, dtMs) ==
  IF candidate THEN Min2(1000, previous + dtMs) ELSE previous

\* The debounce counter of a candidate after a frame of dtMs.
confirmMs(candidate, previous, dtMs) ==
  IF candidate THEN Min2(1000, previous + dtMs) ELSE 0

\* A release that never times out.
releaseNeverTimesOut(state, timestamp) == FALSE

\* releaseElapsed > RELEASE_TIMEOUT_MS on a HandState in release.
releaseTimedOut(state, timestamp) ==
  state.isInRelease /\ timestamp - state.releaseStartTime > RELEASE_TIMEOUT_MS

\* The HandState bookkeeping of the attack and of the release transition.
attackState(s) == [s EXCEPT !.openConfirmMs = 0, !.closedConfirmMs = 0, !.wasPlaying = TRUE]

\* A release transition that drops the note without a release phase.
releaseStateDropped(s, timestamp) == [s EXCEPT !.wasPlaying = FALSE]

\* A release transition that leaves wasPlaying set.
releaseStateStillPlaying(s, timestamp) ==
  [s EXCEPT !.isInRelease = TRUE, !.releaseStartTime = timestamp]

releaseState(s, timestamp) ==
  [s EXCEPT !.wasPlaying = FALSE, !.isInRelease = TRUE, !.releaseStartTime = timestamp]

Clamp(x, lo, hi) == Max2(lo, Min2(hi, x))

\* a / b of two numbers, rounded towards zero (b > 0).
Quot(a, b) == IF a >= 0 THEN a \div b ELSE 0 - ((0 - a) \div b)

\* Math.exp(-dtMs / VIBRATO_FLIP_DECAY_SEC) in 1/10000, from exp(-0.01) =
\* 0.9900 by repeated squaring.
RECURSIVE ExpDecay(_)
ExpDecay(dtMs) ==
  IF dtMs <= 0 THEN 10000
  ELSE IF dtMs % 2 = 1 THEN (9900 * ExpDecay(dtMs - 1)) \div 10000
  ELSE (ExpDecay(dtMs \div 2) * ExpDecay(dtMs \div 2)) \div 10000

\* A velocity that is not limited to MAX_VELOCITY.
velocityUnclamped(velocity) == (velocity * 1000) \div MAX_VELOCITY

\* Math.min(1, velocity / MAX_VELOCITY)
normalizedVelocityOf(velocity) == Min2(1000, (velocity * 1000) \div MAX_VELOCITY)

\* The velocity part of processHand: the hand moved from prevHandPos to
\* (x, y) in dtMs.
smoothedVelocityOf(state, x, y, dtMs) ==
  IF state.prevHandPos # NoPos /\ dtMs > 0
  THEN LET dx == x - state.prevHandPos[1]
           dy == y - state.prevHandPos[2]
           velocity == (ISqrt(dx * dx + dy * dy, 0, 1500) * 1000) \div dtMs
           normalizedVelocity == normalizedVelocityOf(velocity)
       IN IF normalizedVelocity > state.smoothedVelocity
          THEN (VELOCITY_SMOOTHING * normalizedVelocity
                  + (100 - VELOCITY_SMOOTHING) * state.smoothedVelocity) \div 100
          ELSE (2 * normalizedVelocity + 98 * state.smoothedVelocity) \div 100
  ELSE (98 * state.smoothedVelocity) \div 100

\* yVelocity: positive when the hand moves down.
yVelocityOf(state, y, dtMs) ==
  IF state.prevHandPos # NoPos /\ dtMs > 0
  THEN Quot((y - state.prevHandPos[2]) * 1000, dtMs)
  ELSE 0

\* The vibrato part of processHand, step by step.  A flip is a change of sign
\* of the vertical velocity with both speeds above the threshold.
flippedAt(state, yVelocity) ==
  /\ state.prevYVelocity # 0
  /\ (state.prevYVelocity > 0) # (yVelocity > 0)
  /\ Abs(yVelocity) > VIBRATO_VEL_THRESHOLD
  /\ Abs(state.prevYVelocity) > VIBRATO_VEL_THRESHOLD

\* The flip rate estimate in mHz: pulled to the rate of the last two flips at
\* a flip, decaying otherwise.
flipHzEmaOf(state, flipped, dtMs, timestamp) ==
  IF flipped
  THEN (IF state.lastFlipMs > 0
        THEN (VIBRATO_FLIP_HZ_SMOOTH * (1000000 \div Max2(1, timestamp - state.lastFlipMs))
                + (100 - VIBRATO_FLIP_HZ_SMOOTH) * state.flipHzEma) \div 100
        ELSE state.flipHzEma)
  ELSE IF dtMs > 0 /\ state.flipHzEma > 0
  THEN (state.flipHzEma * (ExpDecay(dtMs) \div 10)) \div 1000
  ELSE state.flipHzEma

\* targetSemitonesRaw: the clamped target while the vibrato is active, else 0.
targetSemitonesRawOf(yVelocity, flipHzEma, lastFlipMs, timestamp) ==
  IF /\ Abs(yVelocity) > VIBRATO_VEL_THRESHOLD
     /\ flipHzEma >= VIBRATO_FLIP_HZ_THRESHOLD
     /\ lastFlipMs > 0
     /\ timestamp - lastFlipMs <= VIBRATO_RECENT_FLIP_MS
  THEN Clamp((0 - yVelocity) * VIBRATO_CENTS_PER_VEL,
             0 - VIBRATO_MAX_CENTS, VIBRATO_MAX_CENTS)
  ELSE 0

\* The one-pole low-pass of the target.
pitchTargetLpOf(state, targetSemitonesRaw, tau, dtMs) ==
  IF dtMs > 0
  THEN state.pitchTargetLp
         + Quot(dtMs * (targetSemitonesRaw - state.pitchTargetLp), tau + dtMs)
  ELSE targetSemitonesRaw

\* The asymmetric smoothing towards the low-passed target.
nextPitchOf(state, pitchTargetLp) ==
  IF Abs(pitchTargetLp) > Abs(state.smoothedPitch)
  THEN Quot(VIBRATO_PITCH_SMOOTH_ATTACK * pitchTargetLp
              + (100 - VIBRATO_PITCH_SMOOTH_ATTACK) * state.smoothedPitch, 100)
  ELSE Quot(VIBRATO_PITCH_SMOOTH_RELEASE * pitchTargetLp
              + (100 - VIBRATO_PITCH_SMOOTH_RELEASE) * state.smoothedPitch, 100)

\* The slew limit: smoothedPitch moves by at most maxDelta in a frame.
slewLimited(smoothedPitch, next, dtMs) ==
  IF dtMs > 0
  THEN smoothedPitch + Clamp(next - smoothedPitch,
                             0 - VIBRATO_SLEW_SEMITONES_PER_SEC * dtMs,
                             VIBRATO_SLEW_SEMITONES_PER_SEC * dtMs)
  ELSE next

vibratoPitch(state, yVelocity, dtMs, flipHzEma, lastFlipMs, pitchTargetLp) ==
  [state EXCEPT !.prevYVelocity = yVelocity,
                !.flipHzEma = flipHzEma,
                !.lastFlipMs = lastFlipMs,
                !.pitchTargetLp = pitchTargetLp,
                !.smoothedPitch = slewLimited(@, nextPitchOf(state, pitchTargetLp), dtMs)]

vibratoTarget(state, yVelocity, dtMs, timestamp, flipHzEma, lastFlipMs) ==
  vibratoPitch(state, yVelocity, dtMs, flipHzEma, lastFlipMs,
               pitchTargetLpOf(state,
                               targetSemitonesRawOf(yVelocity, flipHzEma, lastFlipMs,
                                                    timestamp),
                               IF Abs(yVelocity) > 750 THEN VIBRATO_LP_TAU_FAST
                               ELSE VIBRATO_LP_TAU_BASE,
                               dtMs))

vibratoFlip(state, yVelocity, dtMs, timestamp, flipped) ==
  vibratoTarget(state, yVelocity, dtMs, timestamp,
                flipHzEmaOf(state, flipped, dtMs, timestamp),
                IF flipped THEN timestamp ELSE state.lastFlipMs)

vibratoOf(state, yVelocity, dtMs, timestamp) ==
  vibratoFlip(state, yVelocity, dtMs, timestamp, flippedAt(state, yVelocity))

\* The start of processHand: the velocity and the vibrato of a hand at (x, y),
\* dtMs after its last frame.
motionAfter(state, x, y, dtMs, timestamp) ==
  [vibratoOf(state, yVelocityOf(state, y, dtMs), dtMs, timestamp) EXCEPT
     !.smoothedVelocity = smoothedVelocityOf(state, x, y, dtMs),
     !.prevHandPos = <<x, y>>]

trackMotion(state, x, y, timestamp) ==
  motionAfter(state, x, y,
              IF state.lastTimestamp > 0 THEN timestamp - state.lastTimestamp
              ELSE DEFAULT_DT_MS,
              timestamp)

\* The hard cap and the dead zone of the pitch shift.
pitchShiftOf(smoothedPitch) ==
  LET capped == Clamp(smoothedPitch, 0 - VIBRATO_MAX_CENTS, VIBRATO_MAX_CENTS)
  IN IF Abs(capped) < 500 THEN 0 ELSE capped

\* The trail of a hand: last is the last point pushed (NoPos when there is
\* none), lengthNorm the length of the visible trail in 1/1000 and alpha its
\* opacity in 1/1000.  A trail of a few frames stays far below
\* TRAIL_MAX_POINTS, so no point is dropped.
HandTrailState(phase, last, lengthNorm, alpha, fadeStartMs) ==
  [phase |-> phase, last |-> last, lengthNorm |-> lengthNorm, alpha |-> alpha,
   fadeStartMs |-> fadeStartMs]

createTrailState == HandTrailState("idle", NoPos, 0, 0, 0)

startTrail == HandTrailState("active", NoPos, 0, 1000, 0)

releaseTrail(t, nowMs) ==
  IF t.phase = "idle" THEN t
  ELSE [t EXCEPT !.phase = "fading", !.fadeStartMs = nowMs, !.alpha = 1000]

clearTrail == HandTrailState("idle", NoPos, 0, 0, 0)

addTrailPoint(t, x, y) ==
  LET clampedX == Clamp(x, 0, 1000)
      clampedY == Clamp(y, 0, 1000)
      dx == clampedX - t.last[1]
      dy == clampedY - t.last[2]
      d == ISqrt(dx * dx + dy * dy, 0, 1500)
  IN IF t.phase # "active" THEN t
     ELSE IF t.last = NoPos THEN [t EXCEPT !.last = <<clampedX, clampedY>>]
     ELSE IF d < TRAIL_POINT_MIN_DIST THEN t
     ELSE [t EXCEPT !.last = <<clampedX, clampedY>>, !.lengthNorm = @ + d]

\* updateTrailFade for one hand.
fadeTrail(t, nowMs) ==
  LET a == Max2(0, 1000 - (Max2(0, nowMs - t.fadeStartMs) * 1000) \div TRAIL_FADE_MS)
  IN IF t.phase # "fading" THEN t
     ELSE IF a <= 1 THEN clearTrail
     ELSE [t EXCEPT !.alpha = a]

\* A mapping whose mix and decay grow with the trail without limit.
mapTrailUnclamped(lengthNorm) ==
  [mix |-> (REVERB_MAX_MIX * lengthNorm) \div REVERB_MAX_TRAIL_HEIGHTS,
   decay |-> REVERB_MIN_TAIL
               + ((REVERB_MAX_TAIL - REVERB_MIN_TAIL) * lengthNorm)
                   \div REVERB_MAX_TRAIL_HEIGHTS]

mapTrailToReverb(lengthNorm) ==
  LET x == Clamp((lengthNorm * 1000) \div REVERB_MAX_TRAIL_HEIGHTS, 0, 1000)
  IN [mix |-> IF lengthNorm < 20 THEN 0 ELSE (REVERB_MAX_MIX * x) \div 1000,
      decay |-> REVERB_MIN_TAIL + ((REVERB_MAX_TAIL - REVERB_MIN_TAIL) * x) \div 1000]

\* reverbHold[handedness] = null
NoHold == <<>>

ReverbHold(startMs, mix, decay) == [startMs |-> startMs, mix |-> mix, decay |-> decay]

\* The share of a held reverb that is left at nowMs, in 1/1000.
holdLeft(hold, nowMs) ==
  Max2(0, 1000 - (Max2(0, nowMs - hold.startMs) * 1000) \div Max2(1, hold.decay))

\* currentReverbFor: the reverb of the frame, the hold it leaves and the
\* reverbMixSmooth it leaves in the HandState.
currentReverbFor(hold, trail, reverbMixSmooth, nowMs) ==
  IF hold # NoHold
  THEN IF holdLeft(hold, nowMs) <= 1
       THEN [reverbMix |-> 0, reverbDecay |-> 1000, hold |-> NoHold,
             reverbMixSmooth |-> reverbMixSmooth]
       ELSE [reverbMix |-> (hold.mix * holdLeft(hold, nowMs)) \div 1000,
             reverbDecay |-> hold.decay, hold |-> hold,
             reverbMixSmooth |-> reverbMixSmooth]
  ELSE LET smoothed == (REVERB_MIX_SMOOTH * mapTrailToReverb(trail.lengthNorm).mix
                          + (100 - REVERB_MIX_SMOOTH) * reverbMixSmooth) \div 100
       IN [reverbMix |-> smoothed, reverbDecay |-> REVERB_DECAY_DURING_PLAY,
           hold |-> NoHold, reverbMixSmooth |-> smoothed]

\* The state transitions that end processHand (attack, release) and the
\* bookkeeping of the frame.  s3 and e2 are the HandState and the engine after
\* the gain branch, retrig tells whether that branch sent a retrigger.
processHandTransitions(s3, e2, normalizedOpenness, retrig, isHandOpen, isFistClosed, dtMs, openCandidate, closedCandidate, timestamp) ==
  LET attack == isHandOpen /\ ~s3.wasPlaying /\ ~s3.isInRelease
      release == ~attack /\ isFistClosed /\ s3.wasPlaying
      computed == AudioParams(pitchShiftOf(s3.smoothedPitch), s3.gainSmooth,
                              normalizedOpenness, s3.smoothedVelocity,
                              s3.smoothedPalmRotation, s3.lastParams.reverbMix,
                              s3.lastParams.reverbDecay)
      s4 == IF attack THEN attackState(s3)
            ELSE IF release THEN releaseState(s3, timestamp)
            ELSE s3
  IN [ state |-> [s4 EXCEPT !.lastSeenMs = timestamp, !.lastParams = computed],
       engine |-> IF attack THEN triggerAttack(e2, timestamp)
                  ELSE IF release THEN triggerRelease(e2, timestamp)
                  ELSE e2,
       params |-> computed,
       sent |-> IF retrig THEN "retrigger" ELSE IF attack THEN "attack"
                ELSE IF release THEN "release" ELSE "none",
       dtMs |-> dtMs, openCandidate |-> openCandidate, closedCandidate |-> closedCandidate ]

\* The gain smoothing of processHand.
smoothGain(s, gain) ==
  [s EXCEPT !.gainSmooth = (GAIN_SMOOTHING * gain + (100 - GAIN_SMOOTHING) * @) \div 100]

\* The isInRelease / wasPlaying / idle branch of processHand that computes the
\* target gain, retriggers during release and ends a release that timed out.
\* s1 is the HandState with the frame's openness and counters.
processHandGain(s1, e, openness, openCandidate, closedCandidate, dtMs, timestamp) ==
  LET normalizedOpenness == normalizedOpennessOf(openness)
      curvedGain == curvedGainOf(normalizedOpenness)
      isHandOpen == s1.openConfirmMs >= OPEN_CONFIRM_MS
      isFistClosed == s1.closedConfirmMs >= CLOSED_CONFIRM_MS
      isHandOpenForRelease == openCandidate /\ s1.openConfirmMs >= OPEN_CONFIRM_MS_RELEASE
      retrig == s1.isInRelease /\ isHandOpenForRelease
      timedOut == releaseTimedOut(s1, timestamp)
      gain == IF s1.isInRelease THEN RELEASE_GAIN
              ELSE IF s1.wasPlaying
                   THEN MIN_PLAYING_GAIN
                          + (curvedGain * (MAX_GAIN - MIN_PLAYING_GAIN)) \div 1000
                   ELSE (curvedGain * MAX_GAIN) \div 1000
      s2 == IF retrig THEN attackState([s1 EXCEPT !.isInRelease = FALSE])
            ELSE IF timedOut THEN [s1 EXCEPT !.isInRelease = FALSE]
            ELSE s1
  IN processHandTransitions(smoothGain(s2, gain),
                            IF retrig THEN triggerAttack(e, timestamp) ELSE e,
                            normalizedOpenness, retrig, isHandOpen, isFistClosed,
                            dtMs, openCandidate, closedCandidate, timestamp)

\* The openness of the frame is known: the candidates and the debounce counters.
processHandDebounce(state, e, openness, sensitivity, dtMs, timestamp) ==
  processHandGain(
    [state EXCEPT !.lastTimestamp = timestamp, !.smoothedOpenness = openness,
                  !.openConfirmMs = confirmMs(openCandidateOf(openness, sensitivity), @, dtMs),
                  !.closedConfirmMs =
                     confirmMs(closedCandidateOf(openness, sensitivity), @, dtMs)],
    e, openness, openCandidateOf(openness, sensitivity),
    closedCandidateOf(openness, sensitivity), dtMs, timestamp)

\* processHand on one detected hand: the new HandState, the engine after the
\* attack or release it was sent, the AudioParams computed, and what the frame
\* saw (the request sent, dtMs and the two candidates).
\* measured is the median fingertip distance of the frame, rotation the
\* clamped palm rotation (wrist depth against knuckle depth) in 1/1000.
processHand(state, e, measured, rotation, sensitivity, timestamp) ==
  processHandDebounce(
    [state EXCEPT !.smoothedPalmRotation =
       (ROTATION_SMOOTHING * rotation + (100 - ROTATION_SMOOTHING) * @) \div 100],
    e,
    (OPENNESS_SMOOTHING * measured
       + (100 - OPENNESS_SMOOTHING) * state.smoothedOpenness) \div 100,
    sensitivity,
    IF state.lastTimestamp > 0 THEN timestamp - state.lastTimestamp ELSE DEFAULT_DT_MS,
    timestamp)

\* The controller's mutable data, threaded through a frame:
\* w.hs = handStates, w.eng = the two Audio components' engines,
\* w.ap = audioParams1 / audioParams2, w.latched = singleHandLatched,
\* w.trails = trails, w.hold = reverbHold;
\* w.obs records for each controller what processHand saw on this frame.
NotSeen ==
  [sent |-> "lost", dtMs |-> 0, openCandidate |-> FALSE, closedCandidate |-> FALSE,
   params |-> SilentParams]

World(hs, eng, ap, latched, trailStates, holds) ==
  [hs |-> hs, eng |-> eng, ap |-> ap, latched |-> latched,
   trails |-> trailStates, hold |-> holds,
   obs |-> [h \in Handedness |-> NotSeen]]

\* One iteration of the loop over activeHands: r is what processHand returned.
storeHandResult(w, controllerHandedness, r) ==
  [w EXCEPT !.hs[controllerHandedness] = r.state,
            !.eng[controllerHandedness] = r.engine,
            !.ap[controllerHandedness] = r.params,
            !.obs[controllerHandedness] =
               [sent |-> r.sent, dtMs |-> r.dtMs, openCandidate |-> r.openCandidate,
                closedCandidate |-> r.closedCandidate, params |-> r.params]]

\* The trail and the reverb of a detected hand, which processHand keeps under
\* the label the tracker reports: an attack starts the trail and drops the
\* held reverb, a release fades the trail and holds the reverb mapped from its
\* length.
trailAfter(sent, trail, timestamp) ==
  IF sent \in {"attack", "retrigger"} THEN startTrail
  ELSE IF sent = "release" THEN releaseTrail(trail, timestamp)
  ELSE trail

holdOfTrail(trail, timestamp) ==
  ReverbHold(timestamp, mapTrailToReverb(trail.lengthNorm).mix,
             mapTrailToReverb(trail.lengthNorm).decay)

holdAfter(sent, hold, trail1, timestamp) ==
  IF sent \in {"attack", "retrigger"} THEN NoHold
  ELSE IF sent = "release" THEN holdOfTrail(trail1, timestamp)
  ELSE hold

\* The result of processHand with the reverb rv of the frame.
withReverb(r, rv) ==
  [r EXCEPT !.params.reverbMix = rv.reverbMix,
            !.params.reverbDecay = rv.reverbDecay,
            !.state.lastParams.reverbMix = rv.reverbMix,
            !.state.lastParams.reverbDecay = rv.reverbDecay,
            !.state.reverbMixSmooth = rv.reverbMixSmooth]

\* if (state.wasPlaying) addTrailPoint(hand.handedness, ...)
storeReverb(w, hand, controllerHandedness, r, trail1, rv) ==
  [storeHandResult(w, controllerHandedness, withReverb(r, rv))
     EXCEPT !.trails[hand.handedness] =
               IF r.state.wasPlaying THEN addTrailPoint(trail1, hand.x, hand.y)
               ELSE trail1,
            !.hold[hand.handedness] = rv.hold]

\* rv = currentReverbFor(hand.handedness, state, timestamp)
reverbOfHand(w, hand, controllerHandedness, r, trail1, timestamp) ==
  storeReverb(w, hand, controllerHandedness, r, trail1,
              currentReverbFor(holdAfter(r.sent, w.hold[hand.handedness], trail1, timestamp),
                               trail1,
                               IF r.sent \in {"attack", "retrigger"} THEN 0
                               ELSE r.state.reverbMixSmooth,
                               timestamp))

trailOfHand(w, hand, controllerHandedness, r, timestamp) ==
  reverbOfHand(w, hand, controllerHandedness, r,
               trailAfter(r.sent, w.trails[hand.handedness], timestamp), timestamp)

\* A palm rotation that is taken as measured.
rotationUnclamped(rawRotation) == rawRotation

\* clampedRotation = Math.max(0, Math.min(1, rawRotation))
clampedRotationOf(rawRotation) == Clamp(rawRotation, 0, 1000)

\* processHand(hand, state, engine, ...) called by handleTrackingResult.
processActiveHand(w, hand, controllerHandedness, sensitivity, timestamp) ==
  trailOfHand(w, hand, controllerHandedness,
              processHand(trackMotion(w.hs[controllerHandedness], hand.x, hand.y,
                                      timestamp),
                          w.eng[controllerHandedness],
                          hand.openness, clampedRotationOf(hand.rotation), sensitivity,
                          timestamp),
              timestamp)

\* The release of a hand given up as lost, with its trail and reverb.
lostHandStored(w, handedness, s3, e1, trail1, rv) ==
  [w EXCEPT !.hs[handedness] = [s3 EXCEPT !.reverbMixSmooth = rv.reverbMixSmooth],
            !.eng[handedness] = e1,
            !.trails[handedness] = trail1,
            !.hold[handedness] = rv.hold,
            !.ap[handedness] =
               AudioParams(w.ap[handedness].pitchShift,
                           IF s3.isInRelease THEN RELEASE_GAIN ELSE 0,
                           IF s3.isInRelease THEN 700 ELSE 1000,
                           s3.smoothedVelocity, s3.smoothedPalmRotation,
                           rv.reverbMix, rv.reverbDecay)]

lostHandReverb(w, handedness, wasPlaying, s3, e1, trail1, timestamp) ==
  lostHandStored(w, handedness, s3, e1, trail1,
                 currentReverbFor(IF wasPlaying THEN holdOfTrail(trail1, timestamp)
                                  ELSE w.hold[handedness],
                                  trail1, s3.reverbMixSmooth, timestamp))

\* A grace window that has always run out.
graceExpired(state, timestamp) == FALSE

\* msSinceSeen <= TRACKING_LOSS_GRACE_MS (msSinceSeen is infinite for a hand
\* never seen).
withinGraceOf(state, timestamp) ==
  state.lastSeenMs > 0 /\ timestamp - state.lastSeenMs <= TRACKING_LOSS_GRACE_MS

\* A maximum hold that never runs out.
holdNeverEnds(state, timestamp) == TRUE

\* A maximum hold that has always run out.
maxHoldExpired(state, timestamp) == FALSE

withinMaxHoldOf(state, timestamp) ==
  state.lastSeenMs > 0 /\ timestamp - state.lastSeenMs <= TRACKING_LOSS_MAX_HOLD_MS

\* A single-hand mode that leaves the other hand to the dropout handling.
neverForcedIdle(singleHandMode, handedness, selectedHandedness) == FALSE

\* singleHandMode && handedness !== selectedHandedness
notSelected(singleHandMode, handedness, selectedHandedness) ==
  singleHandMode /\ handedness # selectedHandedness

\* Held parameters that do not decay.
heldUndecayed(lastParams) == lastParams

\* The parameters of a frame of the hold: { ...state.lastParams, delayTime:
\* state.lastParams.delayTime * 0.9, feedback: state.lastParams.feedback * 0.98 }
heldParams(lastParams) ==
  [lastParams EXCEPT !.delayTime = (@ * 90) \div 100, !.feedback = (@ * 98) \div 100]

\* One iteration of the loop over the hands that were not detected.
processLostHand(w, handedness, singleHandMode, selectedHandedness, timestamp) ==
  LET state == w.hs[handedness]
      e == w.eng[handedness]
  IN IF notSelected(singleHandMode, handedness, selectedHandedness)
     THEN \* force the non-selected hand silent and idle
       [w EXCEPT
          !.eng[handedness] = IF state.wasPlaying \/ state.isInRelease
                              THEN triggerRelease(e, timestamp) ELSE e,
          !.hs[handedness] = [state EXCEPT !.wasPlaying = FALSE, !.isInRelease = FALSE,
                                           !.releaseStartTime = 0, !.smoothedOpenness = 0,
                                           !.smoothedPalmRotation = (@ * 95) \div 100,
                                           !.smoothedVelocity = (@ * 90) \div 100,
                                           !.openConfirmMs = 0, !.closedConfirmMs = 0,
                                           !.gainSmooth = 0, !.prevHandPos = NoPos,
                                           !.reverbMixSmooth = 0],
          !.hold[handedness] = NoHold,
          !.ap[handedness] = AudioParams(w.ap[handedness].pitchShift, 0, 1000, 0,
                                         (state.smoothedPalmRotation * 95) \div 100,
                                         0, 1000)]
     ELSE
       LET withinGrace == withinGraceOf(state, timestamp)
           withinMaxHold == withinMaxHoldOf(state, timestamp)
       IN IF state.wasPlaying /\ withinGrace
          THEN [w EXCEPT !.ap[handedness] = state.lastParams]
          ELSE IF state.wasPlaying /\ withinMaxHold
          THEN \* held: delayTime and feedback decay, the gain is kept
               LET held == heldParams(state.lastParams)
               IN [w EXCEPT !.hs[handedness].lastParams = held,
                            !.ap[handedness] = held]
          ELSE
            LET s1 == IF state.wasPlaying
                      THEN [state EXCEPT !.wasPlaying = FALSE, !.isInRelease = TRUE,
                                         !.releaseStartTime = timestamp]
                      ELSE state
                e1 == IF state.wasPlaying THEN triggerRelease(e, timestamp) ELSE e
                s2 == IF releaseTimedOut(s1, timestamp)
                      THEN [s1 EXCEPT !.isInRelease = FALSE]
                      ELSE s1
            IN lostHandReverb(w, handedness, state.wasPlaying,
                              [s2 EXCEPT !.smoothedOpenness = 0,
                                         !.smoothedVelocity = (@ * 90) \div 100,
                                         !.smoothedPalmRotation = (@ * 95) \div 100,
                                         !.prevHandPos = NoPos],
                              e1,
                              IF state.wasPlaying
                              THEN releaseTrail(w.trails[handedness], timestamp)
                              ELSE w.trails[handedness],
                              timestamp)

\* A selection that follows the label the tracker reports.
labelFollowed(latched, handedness) == handedness

\* singleHandLatched ?? result.hands[0].handedness
latchedOr(latched, handedness) == IF latched # NoHand THEN latched ELSE handedness

\* updateTrailFade(timestamp) at the end of handleTrackingResult.
fadeTrails(w, timestamp) ==
  [w EXCEPT !.trails = [h \in Handedness |-> fadeTrail(w.trails[h], timestamp)]]

\* hands is result.hands: a sequence of [handedness, openness] records.
handleTrackingResult(w, hands, singleHandMode, sensitivity, timestamp) ==
  LET rightHands == SelectSeq(hands, LAMBDA h : h.handedness = "Right")
      chosen == IF rightHands # <<>> THEN rightHands[1] ELSE hands[1]
      activeHands == IF ~singleHandMode THEN hands
                     ELSE IF Len(hands) = 0 THEN <<>>
                     ELSE IF Len(hands) = 1 THEN <<hands[1]>>
                     ELSE <<chosen>>
      selectedHandedness ==
        IF ~singleHandMode THEN NoHand
        ELSE IF Len(hands) = 0 THEN w.latched
        ELSE IF Len(hands) = 1 THEN latchedOr(w.latched, hands[1].handedness)
        ELSE chosen.handedness
      w0 == IF singleHandMode /\ Len(hands) > 0
            THEN [w EXCEPT !.latched = selectedHandedness] ELSE w
      detectedHandedness ==
        IF singleHandMode
        THEN (IF Len(activeHands) > 0 /\ selectedHandedness # NoHand
              THEN {selectedHandedness} ELSE {})
        ELSE {activeHands[i].handedness : i \in 1..Len(activeHands)}
      controllerOf(hand) ==
        IF singleHandMode
        THEN (IF selectedHandedness # NoHand THEN selectedHandedness ELSE hand.handedness)
        ELSE hand.handedness
      w1 == IF Len(activeHands) >= 1
            THEN processActiveHand(w0, activeHands[1], controllerOf(activeHands[1]),
                                   sensitivity, timestamp)
            ELSE w0
      w2 == IF Len(activeHands) >= 2
            THEN processActiveHand(w1, activeHands[2], controllerOf(activeHands[2]),
                                   sensitivity, timestamp)
            ELSE w1
      w3 == IF "Left" \in detectedHandedness THEN w2
            ELSE processLostHand(w2, "Left", singleHandMode, selectedHandedness, timestamp)
  IN fadeTrails(IF "Right" \in detectedHandedness THEN w3
                ELSE processLostHand(w3, "Right", singleHandMode, selectedHandedness,
                                     timestamp),
                timestamp)

(***************************************************************************)
(* The running application: state and steps.                               *)
(***************************************************************************)
VARIABLES
  now,                \* the clock (performance.now, Date.now, ctx.currentTime), ms
  phase,              \* "stopped", "audio1", "audio2" (handleStart awaiting), "running"
  singleHandMode,
  singleHandLatched,
  opennessSensitivity,
  handStates,
  engines,            \* the engine of audioComponent1 (Left) and audioComponent2 (Right)
  audioParams,        \* audioParams1 (Left) and audioParams2 (Right)
  frames,             \* number of frames processed
  frameAt,            \* the time of the last video frame
  calls,              \* number of direct calls made
  gesture,            \* what the last frame saw of each hand, and since when
  trails,             \* the trail drawn behind each hand
  reverbHold,         \* the reverb held after a release, NoHold when there is none
  halted,             \* stopped or mode toggled and no note requested since: what was
                      \* scheduled before
  ev                  \* the step last taken: [kind, hand, id]

appVars == <<now, phase, singleHandMode, singleHandLatched, opennessSensitivity,
             handStates, engines, audioParams, frames, frameAt, calls, gesture, halted, ev,
             trails, reverbHold>>

\* The trails and the held reverb are the controller's alone.
fxVars == <<trails, reverbHold>>

vars == <<pkVars, lpVars, appVars>>

Event(kind, hand, id) == [kind |-> kind, hand |-> hand, id |-> id]

\* halted.on holds from a handleStop or a toggle of the single-hand checkbox
\* while running until a note is requested again; timerIds[h] and nodes[h]
\* then bound the timers and the source nodes that engine h had created before.
NotHalted ==
  [on |-> FALSE, timerIds |-> [h \in {"Left", "Right"} |-> 0],
   nodes |-> [h \in {"Left", "Right"} |-> 0]]

HaltedAt(eng) ==
  [on |-> TRUE, timerIds |-> [h \in {"Left", "Right"} |-> eng[h].nextTimerId],
   nodes |-> [h \in {"Left", "Right"} |-> Len(eng[h].sources)]]

\* gesture[h]: the request processHand sent on the last frame ("lost" when the
\* hand was not processed), the frame's dtMs, and the time of the first frame
\* of the present unbroken run of frames on which the open (closed) candidate
\* held, NoRun when it did not hold on the last frame processed; params is the
\* AudioParams processHand computed on the last frame it handled the hand.
NoRun == -1

NoGesture ==
  [sent |-> "lost", dtMs |-> 0, openSince |-> NoRun, closedSince |-> NoRun,
   params |-> SilentParams]

RunSince(held, since, timestamp) ==
  IF ~held THEN NoRun ELSE IF since # NoRun THEN since ELSE timestamp

Observe(g, o, timestamp) ==
  IF o.sent = "lost" THEN [g EXCEPT !.sent = "lost", !.dtMs = 0]
  ELSE [sent |-> o.sent, dtMs |-> o.dtMs,
        openSince |-> RunSince(o.openCandidate, g.openSince, timestamp),
        closedSince |-> RunSince(o.closedCandidate, g.closedSince, timestamp),
        params |-> o.params]

\* A one-second looping sample and a one-shot; a four-second looping sample.
ShortPaths == {1, 2}

LongPaths == {3}

\* The state after construction: nothing started.
AppInit ==
  /\ now = 0
  /\ phase = "stopped"
  /\ singleHandMode = FALSE
  /\ singleHandLatched = NoHand
  /\ opennessSensitivity = 10
  /\ handStates = [h \in Handedness |-> createHandState]
  /\ engines = [h \in Handedness |-> createAudioEngine]
  /\ audioParams = [h \in Handedness |-> SilentParams]
  /\ frames = 0
  /\ frameAt = 0
  /\ calls = 0
  /\ gesture = [h \in Handedness |-> NoGesture]
  /\ halted = NotHalted
  /\ trails = [h \in Handedness |-> createTrailState]
  /\ reverbHold = [h \in Handedness |-> NoHold]
  /\ ev = Event("init", NoHand, 0)

\* The sample selection plays no part in the application steps.
PickIdle ==
  /\ pkCatalog = <<>>
  /\ pkGroup = "brass:trombone"
  /\ pkLayer = "medium"
  /\ pkMode = "all"
  /\ pkHandY = 500
  /\ pkResult = NoPath

\* --- time ------------------------------------------------------------------
PendingTimes ==
  UNION {{tm.at : tm \in engines[h].timers}
           \cup {engines[h].sources[i].endAt :
                   i \in {j \in 1..Len(engines[h].sources) :
                            engines[h].sources[j].st = "playing"}} : h \in Handedness}

\* No ended event of a stopped node is waiting for its handler.
NoEndedQueued ==
  \A h \in Handedness : \A i \in 1..Len(engines[h].sources) :
     engines[h].sources[i].st # "stopped"

\* The clock can move to T: nothing pending is due before T.
CanAdvanceTo(T) ==
  /\ T <= MaxNow
  /\ NoEndedQueued
  /\ \A t \in PendingTimes : t >= T

\* The engines once the audio thread has rendered up to T.
Rendered(eng, T) ==
  [h \in Handedness |-> [eng[h] EXCEPT !.sourceGain1 = Forget(@, T),
                                       !.sourceGain2 = Forget(@, T)]]

\* --- engine callbacks --------------------------------------------------------
TimerFires(h, picks) ==
  \E tm \in engines[h].timers :
    /\ CanAdvanceTo(tm.at)
    /\ \A o \in engines[h].timers : o.at = tm.at => o.id >= tm.id
    /\ \E pick \in (IF tm.kind = "loadNewSample" THEN picks ELSE {NoPath}) :
         engines' = Rendered([engines EXCEPT ![h] = timerCallback(@, tm, tm.at, pick)], tm.at)
    /\ now' = tm.at
    /\ ev' = Event(tm.kind, h, tm.node)
    /\ UNCHANGED <<pkVars, lpVars, fxVars, phase, singleHandMode, singleHandLatched, opennessSensitivity,
                   handStates, audioParams, frames, frameAt, calls,
                   gesture, halted>>

\* Does the onended handler of the node request a sample (loadNewSample)?
EndedLoads(e, node) ==
  \/ e.sources[node].onended = "oneShot" /\ e.playState # "idle"
  \/ e.sources[node].onended = "releaseEnded" /\ e.playState = "release"

\* A node plays to the end of its buffer.
SourceEnds(h, picks) ==
  \E i \in 1..Len(engines[h].sources) :
    LET src == engines[h].sources[i] IN
    /\ src.st = "playing"
    /\ CanAdvanceTo(src.endAt)
    /\ \E pick \in (IF EndedLoads(engines[h], i) THEN picks ELSE {NoPath}) :
         engines' = Rendered([engines EXCEPT ![h] = onended(@, i, src.endAt, pick)],
                             src.endAt)
    /\ now' = src.endAt
    /\ ev' = Event("ended", h, i)
    /\ UNCHANGED <<pkVars, lpVars, fxVars, phase, singleHandMode, singleHandLatched, opennessSensitivity,
                   handStates, audioParams, frames, frameAt, calls,
                   gesture, halted>>

\* The ended event of a node that was stopped is delivered.
StoppedNodeEnded(h, picks) ==
  \E i \in 1..Len(engines[h].sources) :
    /\ engines[h].sources[i].st = "stopped"
    /\ \E pick \in (IF EndedLoads(engines[h], i) THEN picks ELSE {NoPath}) :
         engines' = Rendered([engines EXCEPT ![h] = onended(@, i, now, pick)], now)
    /\ ev' = Event("ended", h, i)
    /\ UNCHANGED <<pkVars, lpVars, fxVars, now, phase, singleHandMode, singleHandLatched, opennessSensitivity,
                   handStates, audioParams, frames, frameAt, calls,
                   gesture, halted>>

\* toggleInstrumentMode once audioComponent1.changeSample() has returned:
\* audioComponent2.changeSample().
toggleResumed(engs, T, pick) ==
  [engs EXCEPT !["Right"] = swapSample(@, T, pick)]

\* A requested sample is fetched and decoded.
SampleDecoded(h, picks) ==
  \E i \in 1..Len(engines[h].loads) :
    LET file == SampleFiles[engines[h].loads[i].path]
        retry == /\ ~file.decodes \/ (file.duration >= ASR_MIN_DURATION /\ ~file.isAcceptable)
                 /\ engines[h].loads[i].retryCount < MAX_SAMPLE_RETRIES
        swaps == ~retry /\ engines[h].loads[i].then = "swapRight"
    IN
    /\ \E pick \in (IF retry \/ swaps THEN picks ELSE {NoPath}) :
         engines' = IF swaps
                    THEN toggleResumed([engines EXCEPT ![h] = loadNewSampleDecoded(@, i, NoPath)],
                                       now, pick)
                    ELSE [engines EXCEPT ![h] = loadNewSampleDecoded(@, i, pick)]
    /\ ev' = Event("decoded", h, i)
    /\ UNCHANGED <<pkVars, lpVars, fxVars, now, phase, singleHandMode, singleHandLatched, opennessSensitivity,
                   handStates, audioParams, frames, frameAt, calls,
                   gesture, halted>>

\* --- the controller's handlers ---------------------------------------------
\* handleStart up to its first await on an engine: the video runs (frames
\* arrive) and the first engine is started.
HandleStart(picks) ==
  /\ phase = "stopped"
  /\ \E pick \in picks :
       engines' = [engines EXCEPT !["Left"] = startAudio(@, now, pick)]
  /\ phase' = "audio1"
  /\ frameAt' = now
  /\ halted' = NotHalted
  /\ ev' = Event("handleStart", NoHand, 0)
  /\ UNCHANGED <<pkVars, lpVars, fxVars, now, singleHandMode, singleHandLatched, opennessSensitivity,
                 handStates, audioParams, frames, calls, gesture>>

\* handleStart resumes when audioComponent1.start() has loaded its sample.
HandleStartSecond(picks) ==
  /\ phase = "audio1"
  /\ engines["Left"].loads = <<>>
  /\ \E pick \in picks :
       engines' = [engines EXCEPT !["Right"] = startAudio(@, now, pick)]
  /\ phase' = "audio2"
  /\ ev' = Event("handleStart", NoHand, 1)
  /\ UNCHANGED <<pkVars, lpVars, fxVars, now, singleHandMode, singleHandLatched, opennessSensitivity,
                 handStates, audioParams, frames, frameAt, calls,
                   gesture, halted>>

\* handleStart resumes when audioComponent2.start() has loaded: isRunning = true.
HandleStartDone ==
  /\ phase = "audio2"
  /\ engines["Right"].loads = <<>>
  /\ phase' = "running"
  /\ ev' = Event("handleStart", NoHand, 2)
  /\ UNCHANGED <<pkVars, lpVars, fxVars, now, singleHandMode, singleHandLatched, opennessSensitivity,
                 handStates, engines, audioParams, frames, frameAt, calls,
                   gesture, halted>>

HandleStop ==
  /\ phase = "running"
  /\ calls < MaxCalls
  /\ engines' = [h \in Handedness |-> stopAudio(engines[h], now)]
  /\ audioParams' = [h \in Handedness |-> SilentParams]
  /\ handStates' = [h \in Handedness |-> createHandState]
  /\ singleHandLatched' = NoHand
  /\ gesture' = [h \in Handedness |-> NoGesture]
  /\ halted' = HaltedAt(engines)
  /\ phase' = "stopped"
  /\ calls' = calls + 1
  /\ ev' = Event("handleStop", NoHand, 0)
  /\ trails' = [h \in Handedness |-> clearTrail]
  /\ reverbHold' = [h \in Handedness |-> NoHold]
  /\ UNCHANGED <<pkVars, lpVars, now, singleHandMode, opennessSensitivity, frames, frameAt>>

\* The instrument button: toggleInstrumentMode up to its first await.  The
\* components are mounted for the life of the page, so the mode of the
\* controller is the instrumentMode of either engine.  swapSample of a
\* stopped engine returns at once and the handler goes on to the second.
ToggleInstrumentMode(picks) ==
  /\ phase \in {"stopped", "running"}
  /\ calls < MaxCalls
  /\ \E pick \in picks :
       LET mode == IF engines["Left"].instrumentMode = "brass" THEN "strings" ELSE "brass"
           set == [h \in Handedness |-> setInstrumentMode(engines[h], mode)]
           first == swapSample(set["Left"], now, pick)
       IN engines' = IF ~set["Left"].isRunning
                     THEN toggleResumed(set, now, pick)
                     ELSE Rendered([set EXCEPT !["Left"] =
                                      [first EXCEPT !.loads[Len(first.loads)].then = "swapRight"]],
                                   now)
  /\ calls' = calls + 1
  /\ ev' = Event("toggleInstrumentMode", NoHand, 0)
  /\ UNCHANGED <<pkVars, lpVars, fxVars, now, phase, singleHandMode, singleHandLatched,
                 opennessSensitivity, handStates, audioParams, frames, frameAt,
                 gesture, halted>>

\* The single-hand checkbox and the $effect that follows the change.
ToggleSingleHandMode ==
  /\ phase \in {"stopped", "running"}
  /\ calls < MaxCalls
  /\ singleHandMode' = ~singleHandMode
  /\ calls' = calls + 1
  /\ ev' = Event("toggleSingleHand", NoHand, 0)
  /\ IF phase = "running"
     THEN /\ engines' = [h \in Handedness |-> triggerRelease(engines[h], now)]
          /\ audioParams' = [h \in Handedness |-> SilentParams]
          /\ handStates' = [h \in Handedness |-> createHandState]
          /\ singleHandLatched' = NoHand
          /\ gesture' = [h \in Handedness |-> NoGesture]
          /\ halted' = HaltedAt(engines)
          /\ trails' = [h \in Handedness |-> clearTrail]
          /\ reverbHold' = [h \in Handedness |-> NoHold]
     ELSE UNCHANGED <<engines, audioParams, handStates, singleHandLatched,
                      gesture, halted, trails, reverbHold>>
  /\ UNCHANGED <<pkVars, lpVars, now, phase, opennessSensitivity, frames, frameAt>>

\* A video frame dt ms after the last one, with the tracker's result.
Frame(dts, results) ==
  /\ phase # "stopped"
  /\ frames < MaxFrames
  /\ \E dt \in dts, hands \in results :
       /\ frameAt + dt >= now
       /\ CanAdvanceTo(frameAt + dt)
       /\ now' = frameAt + dt
       /\ frameAt' = frameAt + dt
       /\ \E w \in {handleTrackingResult(
                       World(handStates, engines, audioParams, singleHandLatched,
                             trails, reverbHold),
                       hands, singleHandMode, opennessSensitivity, frameAt + dt)} :
             /\ handStates' = w.hs
             /\ engines' = Rendered(w.eng, frameAt + dt)
             /\ audioParams' = w.ap
             /\ singleHandLatched' = w.latched
             /\ trails' = w.trails
             /\ reverbHold' = w.hold
             /\ gesture' = [h \in Handedness |-> Observe(gesture[h], w.obs[h], frameAt + dt)]
             /\ halted' = IF \A h \in Handedness : w.obs[h].sent \notin {"attack", "retrigger"}
                          THEN halted ELSE NotHalted
       /\ ev' = Event("frame", IF Len(hands) = 0 THEN NoHand ELSE hands[1].handedness,
                      Len(hands))
  /\ frames' = frames + 1
  /\ UNCHANGED <<pkVars, lpVars, phase, singleHandMode, opennessSensitivity, calls>>

\* --- the browser's scheduling ------------------------------------------------
\* The event loop runs a timer callback, an ended handler or the continuation
\* of a fetch that is due, and the camera delivers the next frame: each step
\* below is enabled exactly when the step of the same kind above is, and
\* tells it by the clock, the frame count and the event it leaves.
TimerDue(h) ==
  \E tm \in engines[h].timers :
    /\ CanAdvanceTo(tm.at)
    /\ \A o \in engines[h].timers : o.at = tm.at => o.id >= tm.id
    /\ now' = tm.at
    /\ ev' = Event(tm.kind, h, tm.node)
    /\ frames' = frames

SourceDue(h) ==
  \E i \in 1..Len(engines[h].sources) :
    /\ engines[h].sources[i].st = "playing"
    /\ CanAdvanceTo(engines[h].sources[i].endAt)
    /\ now' = engines[h].sources[i].endAt
    /\ ev' = Event("ended", h, i)
    /\ frames' = frames

StoppedNodeDue(h) ==
  \E i \in 1..Len(engines[h].sources) :
    /\ engines[h].sources[i].st = "stopped"
    /\ now' = now
    /\ ev' = Event("ended", h, i)
    /\ frames' = frames

DecodeDue(h) ==
  \E i \in 1..Len(engines[h].loads) :
    /\ now' = now
    /\ ev' = Event("decoded", h, i)
    /\ frames' = frames

FrameDue(dts, results) ==
  /\ phase # "stopped"
  /\ frames < MaxFrames
  /\ \E dt \in dts, hands \in results :
       /\ frameAt + dt >= now
       /\ CanAdvanceTo(frameAt + dt)
       /\ now' = frameAt + dt
       /\ ev' = Event("frame", IF Len(hands) = 0 THEN NoHand ELSE hands[1].handedness,
                      Len(hands))
  /\ frames' = frames + 1

\* --- direct calls of an Audio component's methods, d ms from now -----------
CallAttack(h, delays) ==
  /\ phase = "running"
  /\ calls < MaxCalls
  /\ \E d \in delays :
       /\ CanAdvanceTo(now + d)
       /\ now' = now + d
       /\ engines' = Rendered([engines EXCEPT ![h] = triggerAttack(@, now + d)], now + d)
  /\ calls' = calls + 1
  /\ halted' = NotHalted
  /\ ev' = Event("attack", h, 0)
  /\ UNCHANGED <<pkVars, lpVars, fxVars, phase, singleHandMode, singleHandLatched, opennessSensitivity,
                 handStates, audioParams, frames, frameAt, gesture>>

CallRelease(h, delays) ==
  /\ phase = "running"
  /\ calls < MaxCalls
  /\ \E d \in delays :
       /\ CanAdvanceTo(now + d)
       /\ now' = now + d
       /\ engines' = Rendered([engines EXCEPT ![h] = triggerRelease(@, now + d)], now + d)
  /\ calls' = calls + 1
  /\ ev' = Event("release", h, 0)
  /\ UNCHANGED <<pkVars, lpVars, fxVars, phase, singleHandMode, singleHandLatched, opennessSensitivity,
                 handStates, audioParams, frames, frameAt,
                   gesture, halted>>

\* An engine started by handleStart whose initial sample (path) is loaded.
LoadedEngine(path) ==
  loadNewSampleDecoded(startAudio(createAudioEngine, 0, path), 1, NoPath)

\* The application once handleStart has completed, at time 0.
RunningInit(paths, sensitivities) ==
  /\ now = 0
  /\ phase = "running"
  /\ singleHandMode = FALSE
  /\ singleHandLatched = NoHand
  /\ opennessSensitivity \in sensitivities
  /\ handStates = [h \in Handedness |-> createHandState]
  /\ \E p \in paths : engines = [h \in Handedness |-> LoadedEngine(p)]
  /\ audioParams = [h \in Handedness |-> SilentParams]
  /\ frames = 0
  /\ frameAt = 0
  /\ calls = 0
  /\ gesture = [h \in Handedness |-> NoGesture]
  /\ halted = NotHalted
  /\ trails = [h \in Handedness |-> createTrailState]
  /\ reverbHold = [h \in Handedness |-> NoHold]
  /\ ev = Event("init", NoHand, 0)

(***************************************************************************)
(* Specifications.                                                         *)
(***************************************************************************)
\* --- Sample selection alone ------------------------------------------------
InitPick == PickInit /\ LoopIdle /\ RunningInit({1}, {10})

NextPick == PickNext /\ UNCHANGED <<lpVars, appVars>>

SpecPick == InitPick /\ [][NextPick]_vars

\* --- One engine driven by direct attack / release calls ----------------------
EngineDelays == {25, 100, 300}

MaxEngineNow == 1500

MaxEngineCalls == 4

InitEngine == PickIdle /\ LoopIdle /\ RunningInit(ShortPaths, {10})

NextEngine ==
  \/ CallAttack("Right", EngineDelays) /\ calls' <= MaxEngineCalls /\ now' <= MaxEngineNow
  \/ CallRelease("Right", EngineDelays) /\ calls' <= MaxEngineCalls /\ now' <= MaxEngineNow
  \/ \E h \in Handedness : TimerFires(h, ShortPaths) /\ now' <= MaxEngineNow
  \/ \E h \in Handedness : SourceEnds(h, ShortPaths) /\ now' <= MaxEngineNow
  \/ \E h \in Handedness : StoppedNodeEnded(h, ShortPaths)
  \/ \E h \in Handedness : SampleDecoded(h, ShortPaths)

SpecEngine == InitEngine /\ [][NextEngine]_vars

\* --- One hand in front of the camera ----------------------------------------
\* The sample files are cached: a requested sample is decoded before the clock
\* moves on.
PromptLoads == now' # now => \A h \in Handedness : engines[h].loads = <<>>

\* A detected hand; openness is its median fingertip distance: 350 for an open
\* hand, 0 for a fist.  rotation is rawRotation, (zDiff + 0.1) / 0.2 in 1/1000:
\* 500 for a palm that faces the camera.
\* It is at the point (x, y) of the image, in 1/1000; the wrist and the centre
\* of the palm are taken as that one point.
HandAt(handedness, openness, x, y) ==
  [handedness |-> handedness, openness |-> openness, rotation |-> 500, x |-> x, y |-> y]

\* A hand held still in the middle of the image.
Hand(handedness, openness) == HandAt(handedness, openness, 500, 500)

\* Frames at 50 and at 10 per second.
HandDts == {20, 100}

RightFrames == {<<>>, <<Hand("Right", 350)>>, <<Hand("Right", 0)>>}

MaxHandNow == 700

HandBounds == PromptLoads /\ now' <= MaxHandNow

InitHand == PickIdle /\ LoopIdle /\ RunningInit({1}, {10})

NextHand ==
  \/ Frame(HandDts, RightFrames) /\ HandBounds
  \/ \E h \in Handedness : TimerFires(h, ShortPaths) /\ HandBounds
  \/ \E h \in Handedness : SourceEnds(h, ShortPaths) /\ HandBounds
  \/ \E h \in Handedness : StoppedNodeEnded(h, ShortPaths)
  \/ \E h \in Handedness : SampleDecoded(h, ShortPaths)

SpecHand == InitHand /\ [][NextHand]_vars

\* --- The whole application -----------------------------------------------------
\* Start, stop, the single-hand checkbox, and frames with either or both hands,
\* the tracker dropping out for up to 3.1 s.
AppDts == {100, 3100}

AppFrames ==
  {<<>>, <<Hand("Right", 350)>>, <<Hand("Right", 0)>>,
   <<Hand("Left", 350), Hand("Right", 350)>>}

MaxAppFrames == 4

MaxAppCalls == 1

\* The user's clicks are handled between a frame and the callbacks after it.
AtFrame == ev.kind \in {"init", "frame", "handleStart", "handleStop", "toggleSingleHand"}

InitApp == PickIdle /\ LoopIdle /\ RunningInit(LongPaths, {10})

NextApp ==
  \/ AtFrame /\ HandleStart(LongPaths)
  \/ HandleStartSecond(LongPaths)
  \/ HandleStartDone
  \/ AtFrame /\ HandleStop /\ calls' <= MaxAppCalls
  \/ AtFrame /\ ToggleSingleHandMode /\ calls' <= MaxAppCalls
  \/ Frame(AppDts, AppFrames) /\ PromptLoads /\ frames' <= MaxAppFrames
  \/ \E h \in Handedness : TimerFires(h, LongPaths) /\ PromptLoads
  \/ \E h \in Handedness : SourceEnds(h, LongPaths) /\ PromptLoads
  \/ \E h \in Handedness : StoppedNodeEnded(h, LongPaths)
  \/ \E h \in Handedness : SampleDecoded(h, LongPaths)

SpecApp == InitApp /\ [][NextApp]_vars

\* --- One hand holding a note on the four-second sample ----------------------
InitSustain == PickIdle /\ LoopIdle /\ RunningInit(LongPaths, {10})

NextSustain ==
  \/ Frame(AppDts, RightFrames) /\ PromptLoads
  \/ \E h \in Handedness : TimerFires(h, LongPaths) /\ PromptLoads
  \/ \E h \in Handedness : SourceEnds(h, LongPaths) /\ PromptLoads
  \/ \E h \in Handedness : StoppedNodeEnded(h, LongPaths)
  \/ \E h \in Handedness : SampleDecoded(h, LongPaths)

SpecSustain == InitSustain /\ [][NextSustain]_vars

\* --- The tracker loses the hand ------------------------------------------------
\* The left hand opens, a second hand may come into view, and the tracker
\* drops out for 0.1 s to 3.1 s; the single-hand checkbox may be set before
\* the first frame.
LossDts == {100, 500, 2500}

LossFrames ==
  {<<>>, <<Hand("Left", 350)>>, <<Hand("Left", 350), Hand("Right", 350)>>}

MaxLossFrames == 5

InitLoss == PickIdle /\ LoopIdle /\ RunningInit(LongPaths, {10})

NextLoss ==
  \/ ToggleSingleHandMode /\ frames = 0 /\ calls' <= MaxAppCalls
  \/ Frame(LossDts, LossFrames) /\ PromptLoads /\ frames' <= MaxLossFrames
  \/ \E h \in Handedness : TimerFires(h, LongPaths) /\ PromptLoads
  \/ \E h \in Handedness : SourceEnds(h, LongPaths) /\ PromptLoads
  \/ \E h \in Handedness : StoppedNodeEnded(h, LongPaths)
  \/ \E h \in Handedness : SampleDecoded(h, LongPaths)

SpecLoss == InitLoss /\ [][NextLoss]_vars

\* --- A one-shot sample followed by the looping sample ------------------------
\* The engine starts on the one-shot sample and every later load selects the
\* one-second looping sample.
MaxStuckNow == 800

InitStuck == PickIdle /\ LoopIdle /\ RunningInit({2}, {10})

NextStuck ==
  \/ CallAttack("Right", EngineDelays) /\ now' <= MaxStuckNow
  \/ CallRelease("Right", EngineDelays) /\ now' <= MaxStuckNow
  \/ \E h \in Handedness : TimerFires(h, {1}) /\ now' <= MaxStuckNow
  \/ \E h \in Handedness : SourceEnds(h, {1}) /\ now' <= MaxStuckNow
  \/ \E h \in Handedness : StoppedNodeEnded(h, {1})
  \/ \E h \in Handedness : SampleDecoded(h, {1})

SpecStuck == InitStuck /\ [][NextStuck]_vars

\* --- Sample loads that are rejected or fail -----------------------------------
\* The engine of the right hand holds the good looping sample; every later
\* selection is the good looping sample, the badly looping one or the
\* broken file.
LoadPaths == {1, 4, 5}

MaxLoadCalls == 2

MaxLoadNow == 1000

InitLoad == PickIdle /\ LoopIdle /\ RunningInit({1}, {10})

NextLoad ==
  \/ CallAttack("Right", EngineDelays) /\ calls' <= MaxLoadCalls /\ now' <= MaxLoadNow
  \/ CallRelease("Right", EngineDelays) /\ calls' <= MaxLoadCalls /\ now' <= MaxLoadNow
  \/ \E h \in Handedness : TimerFires(h, LoadPaths) /\ now' <= MaxLoadNow
  \/ \E h \in Handedness : SourceEnds(h, LoadPaths) /\ now' <= MaxLoadNow
  \/ \E h \in Handedness : StoppedNodeEnded(h, LoadPaths)
  \/ \E h \in Handedness : SampleDecoded(h, LoadPaths)

\* Every fetch completes or fails in the end.
SpecLoad ==
  InitLoad /\ [][NextLoad]_vars /\ WF_vars(\E h \in Handedness : SampleDecoded(h, LoadPaths))

\* --- One hand and the instrument button ---------------------------------------
\* The right hand plays the one-shot or the one-second looping sample while
\* the instrument mode is toggled.  The sample files are cached, so the loads
\* in flight complete, in any order, before the clock moves on.
\* Frames at 10 per second.
ModeDts == {100}

MaxModeNow == 600

MaxModeCalls == 1

InitMode == PickIdle /\ LoopIdle /\ RunningInit(ShortPaths, {10})

NextMode ==
  \/ Frame(ModeDts, RightFrames) /\ PromptLoads /\ now' <= MaxModeNow
  \/ ToggleInstrumentMode(ShortPaths) /\ calls' <= MaxModeCalls
  \/ \E h \in Handedness : TimerFires(h, ShortPaths) /\ PromptLoads /\ now' <= MaxModeNow
  \/ \E h \in Handedness : SourceEnds(h, ShortPaths) /\ PromptLoads /\ now' <= MaxModeNow
  \/ \E h \in Handedness : StoppedNodeEnded(h, ShortPaths)
  \/ \E h \in Handedness : SampleDecoded(h, ShortPaths)

SpecMode == InitMode /\ [][NextMode]_vars

\* --- One engine that only ever holds the one-second looping sample -----------
AsrPaths == {1}

InitAsr == PickIdle /\ LoopIdle /\ RunningInit(AsrPaths, {10})

NextAsr ==
  \/ CallAttack("Right", EngineDelays) /\ calls' <= MaxEngineCalls /\ now' <= MaxEngineNow
  \/ CallRelease("Right", EngineDelays) /\ calls' <= MaxEngineCalls /\ now' <= MaxEngineNow
  \/ \E h \in Handedness : TimerFires(h, AsrPaths) /\ now' <= MaxEngineNow
  \/ \E h \in Handedness : SourceEnds(h, AsrPaths) /\ now' <= MaxEngineNow
  \/ \E h \in Handedness : StoppedNodeEnded(h, AsrPaths)
  \/ \E h \in Handedness : SampleDecoded(h, AsrPaths)

SpecAsr == InitAsr /\ [][NextAsr]_vars

\* --- A sample whose loop is shorter than the crossfade -----------------------
\* The engine holds the good looping sample; every later selection is the
\* half-second recording, whose loop is rejected until the retries run out.
ShortLoopPaths == {6}

MaxShortLoopCalls == 3

MaxShortLoopNow == 500

MaxShortLoopSources == 6

InitShortLoop == PickIdle /\ LoopIdle /\ RunningInit({1}, {10})

ShortLoopBounds ==
  /\ now' <= MaxShortLoopNow
  /\ calls' <= MaxShortLoopCalls
  /\ Len(engines'["Right"].sources) <= MaxShortLoopSources

NextShortLoop ==
  \/ CallAttack("Right", EngineDelays) /\ ShortLoopBounds
  \/ CallRelease("Right", EngineDelays) /\ ShortLoopBounds
  \/ \E h \in Handedness : TimerFires(h, ShortLoopPaths) /\ ShortLoopBounds
  \/ \E h \in Handedness : SourceEnds(h, ShortLoopPaths) /\ ShortLoopBounds
  \/ \E h \in Handedness : StoppedNodeEnded(h, ShortLoopPaths)
  \/ \E h \in Handedness : SampleDecoded(h, ShortLoopPaths)

SpecShortLoop == InitShortLoop /\ [][NextShortLoop]_vars

\* --- The tracker loses a hand for good ------------------------------------------
\* The right hand opens in front of the camera on the first two frames, a
\* tenth of a second apart; from the third frame on the frames come 2.1 s or
\* 2.5 s apart and a hand that is gone may stay gone.  The single-hand
\* checkbox may be set before the first frame.  The event loop runs every
\* callback that is due and the camera keeps delivering frames.
GoneOpenDts == {100}

GoneDts == {2100, 2500}

GoneFrames ==
  {<<>>, <<Hand("Left", 350)>>, <<Hand("Right", 350)>>,
   <<Hand("Left", 350), Hand("Right", 350)>>}

\* The number of frames on which the right hand opens.
GoneOpenCount == 2

InitGone == PickIdle /\ LoopIdle /\ RunningInit(LongPaths, {10})

\* The frame this step delivers: when it comes and whether it shows the
\* right hand.
GoneSchedule ==
  /\ PromptLoads
  /\ IF frames' <= GoneOpenCount
     THEN now' - frameAt \in GoneOpenDts /\ (ev'.hand = "Right" \/ ev'.id = 2)
     ELSE now' - frameAt \in GoneDts

\* The camera is running: no callback runs later than the time by which the
\* next frame has arrived.
GoneClock ==
  /\ PromptLoads
  /\ now' <= frameAt + SetMax(IF frames < GoneOpenCount THEN GoneOpenDts ELSE GoneDts)

NextGone ==
  \/ ToggleSingleHandMode /\ frames = 0 /\ calls' <= MaxAppCalls
  \/ Frame(GoneOpenDts \cup GoneDts, GoneFrames) /\ GoneSchedule
  \/ \E h \in Handedness : TimerFires(h, LongPaths) /\ GoneClock
  \/ \E h \in Handedness : SourceEnds(h, LongPaths) /\ GoneClock
  \/ \E h \in Handedness : StoppedNodeEnded(h, LongPaths)
  \/ \E h \in Handedness : SampleDecoded(h, LongPaths)

\* What the browser is bound to run: the steps of NextGone but the click on
\* the checkbox, by when they can be taken and by the clock, the frame count
\* and the step they leave.
GoneDue ==
  \/ FrameDue(GoneOpenDts \cup GoneDts, GoneFrames) /\ GoneSchedule
  \/ \E h \in Handedness : TimerDue(h) /\ GoneClock
  \/ \E h \in Handedness : SourceDue(h) /\ GoneClock
  \/ \E h \in Handedness : StoppedNodeDue(h)
  \/ \E h \in Handedness : DecodeDue(h)

SpecGone == InitGone /\ [][NextGone]_vars /\ WF_<<now, frames, ev>>(GoneDue)

\* --- Pitch modes over four octaves ----------------------------------------------
\* Catalogs of up to MaxCands samples with pitches in four octaves (C2, C3,
\* E3, G3, C4, C5), the hand at the top, the middle or the bottom.
BandNotes == {36, 48, 52, 55, 60, 72}

BandHandYs == {0, 500, 1000}

BandCatalogs ==
  UNION {{[i \in 1..n |-> SampleInfo(f[i], i)] :
            f \in {g \in [1..n -> BandNotes] : \A i \in 1..(n - 1) : g[i] <= g[i + 1]}} :
         n \in 0..MaxCands}

InitBands ==
  /\ pkGroup \in SampleGroups
  /\ pkCatalog \in (IF pkGroup = "brass:trombone"
                    THEN BandCatalogs \cup {spreadOverLayers(c) : c \in BandCatalogs}
                    ELSE BandCatalogs)
  /\ pkLayer \in ArticulationLayers
  /\ pkMode \in PitchModes
  /\ pkHandY \in BandHandYs
  /\ pkResult = NoPath
  /\ LoopIdle
  /\ RunningInit({1}, {10})

SpecBands == InitBands /\ [][NextPick]_vars

\* --- A short sample followed by a long one -------------------------------------
\* The engine starts with the one-shot file 2; every later load decodes file 2
\* or the four-second file 3, whose loop (1.9 s) is longer than its attack
\* (1.05 s).
FirstPaths == {2}

MixedPaths == {2, 3}

MixedDelays == {25, 300}

MaxMixedCalls == 5

MaxMixedNow == 3000

InitMixed == PickIdle /\ LoopIdle /\ RunningInit(FirstPaths, {10})

NextMixed ==
  \/ CallAttack("Right", MixedDelays) /\ calls' <= MaxMixedCalls /\ now' <= MaxMixedNow
  \/ CallRelease("Right", MixedDelays) /\ calls' <= MaxMixedCalls /\ now' <= MaxMixedNow
  \/ \E h \in Handedness : TimerFires(h, MixedPaths) /\ now' <= MaxMixedNow
  \/ \E h \in Handedness : SourceEnds(h, MixedPaths) /\ now' <= MaxMixedNow
  \/ \E h \in Handedness : StoppedNodeEnded(h, MixedPaths)
  \/ \E h \in Handedness : SampleDecoded(h, MixedPaths)

SpecMixed == InitMixed /\ [][NextMixed]_vars

\* --- A hand that moves ---------------------------------------------------------
\* The left hand is shaken up and down by a tenth of the image at 20 frames
\* per second, jumps to the corner of the image with the palm turned away,
\* closes, or is joined by the right hand; the tracker drops out for 700 ms at a
\* time.
MotionDt == 50

DropoutDt == 700

Turned(hand, rawRotation) == [hand EXCEPT !.rotation = rawRotation]

MotionFrames ==
  {<<>>,
   <<HandAt("Left", 350, 500, 400)>>,
   <<HandAt("Left", 350, 500, 500)>>,
   <<Turned(HandAt("Left", 350, 1000, 1000), 2500)>>,
   <<HandAt("Left", 0, 500, 500)>>,
   <<HandAt("Left", 350, 500, 400), Hand("Right", 350)>>}

MaxMotionFrames == 5

InitMotion == PickIdle /\ LoopIdle /\ RunningInit(LongPaths, {10})

NextMotion ==
  \/ ToggleSingleHandMode /\ frames = 0 /\ calls' <= 1
  \/ /\ Frame({MotionDt, DropoutDt}, MotionFrames)
     /\ (ev'.id = 0) = (now' - frameAt = DropoutDt)
     /\ PromptLoads /\ frames' <= MaxMotionFrames
  \/ \E h \in Handedness : TimerFires(h, LongPaths) /\ PromptLoads
  \/ \E h \in Handedness : SourceEnds(h, LongPaths) /\ PromptLoads
  \/ \E h \in Handedness : StoppedNodeEnded(h, LongPaths)
  \/ \E h \in Handedness : SampleDecoded(h, LongPaths)

SpecMotion == InitMotion /\ [][NextMotion]_vars

\* --- The tracker's handedness labels ---------------------------------------------
\* Frames at 10 per second with up to two open hands under whatever labels
\* the tracker reports, the same label twice included; the single-hand
\* checkbox may be toggled and the application stopped between frames.
LabelDts == {100}

LabelFrames ==
  {<<>>, <<Hand("Left", 350)>>, <<Hand("Right", 350)>>,
   <<Hand("Left", 350), Hand("Right", 350)>>,
   <<Hand("Left", 350), Hand("Left", 350)>>,
   <<Hand("Right", 350), Hand("Right", 350)>>}

MaxLabelFrames == 5

MaxLabelCalls == 2

InitLabels == PickIdle /\ LoopIdle /\ RunningInit(LongPaths, {10})

NextLabels ==
  \/ AtFrame /\ ToggleSingleHandMode /\ calls' <= MaxLabelCalls
  \/ AtFrame /\ HandleStop /\ calls' <= MaxLabelCalls
  \/ Frame(LabelDts, LabelFrames) /\ PromptLoads /\ frames' <= MaxLabelFrames
  \/ \E h \in Handedness : TimerFires(h, LongPaths) /\ PromptLoads
  \/ \E h \in Handedness : SourceEnds(h, LongPaths) /\ PromptLoads
  \/ \E h \in Handedness : StoppedNodeEnded(h, LongPaths)
  \/ \E h \in Handedness : SampleDecoded(h, LongPaths)

SpecLabels == InitLabels /\ [][NextLabels]_vars

\* --- Loop point analysis alone ------------------------------------------------
InitLoop == PickIdle /\ LoopInit /\ RunningInit({1}, {10})

NextLoop ==
  \/ AnalyseInEngine /\ UNCHANGED <<pkVars, appVars>>
  \/ AnalyseOffline /\ UNCHANGED <<pkVars, appVars>>

SpecLoop == InitLoop /\ [][NextLoop]_vars

(***************************************************************************)
(* Properties.                                                             *)
(***************************************************************************)
\* The hands processHand handled on the frame that led to the present state.
Processed(g) == {h \in Handedness : g[h].sent # "lost"}

\* The time for which the open (closed) candidate of hand h has been seen to
\* hold without a break, up to the frame that led to the state with gesture g
\* at time t: 0 on the frame that begins the run.
OpenFor(g, h, t) == IF g[h].openSince = NoRun THEN -1 ELSE t - g[h].openSince

ClosedFor(g, h, t) == IF g[h].closedSince = NoRun THEN -1 ELSE t - g[h].closedSince

\* C1 (as claimed): processHand sends an attack only when the open candidate
\* has held for 35 ms of elapsed time, a retrigger only when it has held for
\* 25 ms, and a release only when the closed candidate has held for 90 ms.
C1_TransitionAfterFullWindow ==
  [][ev'.kind = "frame" =>
       \A h \in Processed(gesture') :
          /\ gesture'[h].sent = "attack" => OpenFor(gesture', h, now') >= OPEN_CONFIRM_MS
          /\ gesture'[h].sent = "retrigger"
               => OpenFor(gesture', h, now') >= OPEN_CONFIRM_MS_RELEASE
          /\ gesture'[h].sent = "release"
               => ClosedFor(gesture', h, now') >= CLOSED_CONFIRM_MS]_vars

\* C2: after every frame processHand handled, openConfirmMs is 0 unless the
\* open candidate held on that frame and closedConfirmMs is 0 unless the closed
\* candidate held on it; the two are never both non-zero; and on the frame
\* that begins a run of a candidate the counter holds nothing but that frame's
\* own dt (or 0, when the attack it confirmed has reset it).
C2_CountersFollowCandidates ==
  [][ev'.kind = "frame" =>
       \A h \in Processed(gesture') :
          /\ handStates'[h].openConfirmMs > 0 => gesture'[h].openSince # NoRun
          /\ handStates'[h].closedConfirmMs > 0 => gesture'[h].closedSince # NoRun
          /\ ~(handStates'[h].openConfirmMs > 0 /\ handStates'[h].closedConfirmMs > 0)
          /\ OpenFor(gesture', h, now') = 0
               => handStates'[h].openConfirmMs \in {0, Min2(1000, gesture'[h].dtMs)}
          /\ ClosedFor(gesture', h, now') = 0
               => handStates'[h].closedConfirmMs \in {0, Min2(1000, gesture'[h].dtMs)}]_vars

\* A playing hand closes: the frame begins a run of the closed candidate after
\* the run of the open candidate that started the note.
C2_ClosedRunBegins ==
  /\ ev.kind = "frame"
  /\ handStates["Right"].wasPlaying
  /\ gesture["Right"].sent = "none"
  /\ ClosedFor(gesture, "Right", now) = 0
  /\ handStates["Right"].closedConfirmMs > 0
  /\ handStates["Right"].openConfirmMs = 0

\* C3: no HandState has both wasPlaying and isInRelease set.
C3_PlayingExcludesRelease ==
  \A h \in Handedness : ~(handStates[h].wasPlaying /\ handStates[h].isInRelease)

\* A frame on which processHand made the release transition of a playing hand.
C3_ReleasedOnFrame ==
  \E h \in Handedness :
     /\ ev.kind = "frame"
     /\ gesture[h].sent = "release"
     /\ handStates[h].isInRelease
     /\ ~handStates[h].wasPlaying

Nodes(e) == 1..Len(e.sources)

\* The step taken is a callback of engine h: a timer or an onended handler.
TimerKinds ==
  {"sustain", "loop", "crossfadeCleanup", "oldAttackStop", "retriggerCleanup",
   "releaseCleanup", "stopSourceNodes", "loadNewSample"}

\* The timers of engine h that this step ran.
Fired(h) == {tm \in engines[h].timers : tm \notin engines'[h].timers}

\* The step left the gain automation of both lanes of engine h as it was.
SameGains(h) ==
  /\ engines'[h].sourceGain1 = Forget(engines[h].sourceGain1, now')
  /\ engines'[h].sourceGain2 = Forget(engines[h].sourceGain2, now')

\* The timers that stop the outgoing source of a crossfade.
CrossfadeCleanups == {"crossfadeCleanup", "releaseCleanup", "retriggerCleanup"}

\* The nodes of engine h that this step stops.
StoppedNow(h) ==
  {i \in Nodes(engines[h]) :
     engines[h].sources[i].st = "playing" /\ engines'[h].sources[i].st = "stopped"}

\* C5 (as claimed): the timer that ends a crossfade stops the outgoing source
\* only when the gain of that source's lane has reached zero.
C5_StoppedOnlyWhenSilent ==
  [][\A h \in Handedness : \A i \in StoppedNow(h) :
       ev'.kind \in CrossfadeCleanups
         => Silent(LaneGain(engines'[h], engines[h].sources[i].lane), now')]_vars

\* Node i of engine e is a release tail that a later attack superseded: a
\* note (a source at offset 0) was started after it.
SupersededTail(e, i) ==
  /\ e.sources[i].onended = "releaseEnded"
  /\ \E j \in Nodes(e) : j > i /\ e.sources[j].offset = 0

\* C6 (as claimed): the onended handler of a superseded release tail leaves
\* playState, the slots that track other nodes, the lane gains and the pending
\* loads as they are.
C6_SupersededTailEndsQuietly ==
  [][\A h \in Handedness :
       (ev'.kind = "ended" /\ ev'.hand = h /\ SupersededTail(engines[h], ev'.id))
         => /\ engines'[h].playState = engines[h].playState
            /\ \A k \in {1, 2} : Slot(engines[h], k) # ev'.id
                                   => Slot(engines'[h], k) = Slot(engines[h], k)
            /\ SameGains(h)
            /\ engines'[h].loads = engines[h].loads]_vars

\* The callback this step ran on engine h was scheduled before the halt.
ScheduledBeforeHalt(h) ==
  \/ ev'.kind \in TimerKinds /\ ev'.hand = h
       /\ \E tm \in Fired(h) : tm.id < halted.timerIds[h]
  \/ ev'.kind = "ended" /\ ev'.hand = h /\ ev'.id <= halted.nodes[h]

\* C7 (as claimed): once the instrument is stopped or the single-hand checkbox
\* toggled while running, no timer or onended callback scheduled before
\* starts a source, changes playState or changes the lane gains.
C7_NothingRunsAfterHalt ==
  [][\A h \in Handedness :
       (halted.on /\ halted'.on /\ ScheduledBeforeHalt(h))
         => /\ engines'[h].playState = engines[h].playState
            /\ Len(engines'[h].sources) = Len(engines[h].sources)
            /\ SameGains(h)]_vars

\* The times at which the scheduled gain g can change direction within a..b,
\* and the milliseconds next to them.
BreakPoints(g, a, b) ==
  ({a, b} \cup UNION {{g.tl[k].t - 1, g.tl[k].t, g.tl[k].t + 1} : k \in 1..Len(g.tl)})
    \cap a..b

\* The time of the next timer or source end of engine e, T when there is none
\* before T.
NextPending(e, T) ==
  SetMin({T} \cup {tm.at : tm \in e.timers}
             \cup {e.sources[i].endAt : i \in {j \in Nodes(e) : e.sources[j].st = "playing"}})

\* Both lanes of engine e are silent at some time from T until its next
\* timer or source end.
BothLanesSilent(e, T) ==
  \E t \in BreakPoints(e.sourceGain1, T, NextPending(e, T + 1000))
             \cup BreakPoints(e.sourceGain2, T, NextPending(e, T + 1000)) :
     Silent(e.sourceGain1, t) /\ Silent(e.sourceGain2, t)

\* The note of engine e in attack was started by a retrigger: its source was
\* started DECLICK_STOP_DURATION after the call.
Retriggered(e) ==
  /\ e.playState = "attack"
  /\ e.useASR
  /\ Slot(e, e.activeSource) # NoNode
  /\ e.sources[Slot(e, e.activeSource)].startAt
       = e.sources[Slot(e, e.activeSource)].createdAt + DECLICK_STOP_DURATION

\* triggerAttack is called on engine h in release on an ASR sample.
RetriggerCall(h) ==
  /\ ev'.kind = "attack" /\ ev'.hand = h
  /\ engines[h].playState = "release" /\ engines[h].useASR

\* C8: triggerAttack during release on an ASR sample starts, in that call, a
\* source at offset 0 on the lane engine.activeSource, tracks it in that
\* lane's slot, sets playState to attack and arms the sustain timer; the
\* release lane is faded to 0 within 0.01 + 0.12 s and its source stopped by a
\* timer after that; and from the retrigger until sustain the two lanes are
\* never both silent.
C8_RetriggerStartsAtOnce ==
  [][\A h \in Handedness :
       /\ RetriggerCall(h) =>
            LET e == engines[h]
                n == Len(e.sources) + 1
                releaseLane == OtherLane(e.activeSource)
                fadedAt == now' + DECLICK_STOP_DURATION + RETRIGGER_CROSSFADE_DURATION
            IN /\ engines'[h].playState = "attack"
               /\ Len(engines'[h].sources) = n
               /\ engines'[h].sources[n].offset = 0
               /\ engines'[h].sources[n].lane = e.activeSource
               /\ engines'[h].sources[n].st = "playing"
               /\ Slot(engines'[h], e.activeSource) = n
               /\ engines'[h].activeSource = e.activeSource
               /\ \E tm \in engines'[h].timers \ e.timers :
                     tm.kind = "sustain" /\ tm.at = now' + e.loopStart
               /\ Silent(LaneGain(engines'[h], releaseLane), fadedAt)
               /\ \A t \in now'..(fadedAt - 1) :
                     GainAt(LaneGain(engines'[h], releaseLane), t)
                       >= GainAt(LaneGain(engines'[h], releaseLane), t + 1)
               /\ Slot(e, releaseLane) # NoNode =>
                    /\ engines'[h].sources[Slot(e, releaseLane)].st = "playing"
                    /\ \E tm \in engines'[h].timers \ e.timers :
                          /\ tm.kind = "retriggerCleanup" /\ tm.node = Slot(e, releaseLane)
                          /\ tm.at >= fadedAt
       /\ Retriggered(engines'[h]) => ~BothLanesSilent(engines'[h], now')]_vars

\* A retrigger during the release crossfade: the release tail is still rising
\* and the new note's lane starts from 0.
C8_RetriggerReached ==
  /\ ev.kind = "attack"
  /\ Retriggered(engines["Right"])
  /\ Len(engines["Right"].sources) >= 3
  /\ \E tm \in engines["Right"].timers : tm.kind = "retriggerCleanup"

\* The source of the note engine e is playing: the newest source at offset 0.
NoteSource(e) == SetMax({i \in Nodes(e) : e.sources[i].offset = 0})

\* The note of engine e was started from idle: its source began to play in
\* the call that created it.
StartedFromIdle(e) ==
  /\ e.playState = "attack"
  /\ e.useASR
  /\ e.sources[NoteSource(e)].startAt = e.sources[NoteSource(e)].createdAt

\* C9 (as claimed): when processHand confirms the open hand while the engine
\* is idle and loaded with an ASR sample, that frame starts one source at
\* offset 0 on lane 1 and sets playState to attack; and the engine moves that
\* note from attack to sustain when loopStart has elapsed since the attack,
\* neither sooner nor later.
C9_AttackThenSustainAtLoopStart ==
  [][\A h \in Handedness :
       LET e == engines[h] IN
       /\ ( /\ ev'.kind = "frame"
            /\ gesture'[h].sent \in {"attack", "retrigger"}
            /\ e.playState = "idle" /\ e.isLoaded /\ e.useASR )
          => /\ engines'[h].playState = "attack"
             /\ Len(engines'[h].sources) = Len(e.sources) + 1
             /\ engines'[h].sources[Len(e.sources) + 1].offset = 0
             /\ engines'[h].sources[Len(e.sources) + 1].lane = 1
             /\ engines'[h].sourceNode = Len(e.sources) + 1
       /\ (StartedFromIdle(e) /\ engines'[h].playState = "sustain")
          => now' = e.sources[NoteSource(e)].createdAt + e.loopStart
       /\ StartedFromIdle(engines'[h])
          => now' <= engines'[h].sources[NoteSource(engines'[h])].createdAt
                       + engines'[h].loopStart]_vars

\* C10: when processHand confirms the closed hand of a playing hand whose
\* engine is in sustain on an ASR sample, that frame sets playState to
\* release, cancels the loop timer, starts a source at loopEnd on the inactive
\* lane and begins the crossfade at once; and on every later frame on which
\* the hand is in release and stays so, the gain moves toward 0.5.
C10_ReleaseFromSustain ==
  [][\A h \in Handedness :
       LET e == engines[h]
           n == Len(e.sources) + 1
           releaseLane == OtherLane(e.activeSource)
       IN
       /\ ( /\ ev'.kind = "frame"
            /\ gesture'[h].sent = "release"
            /\ handStates[h].wasPlaying
            /\ e.playState = "sustain" /\ e.useASR )
          => /\ engines'[h].playState = "release"
             /\ engines'[h].loopSchedulerId = NoTimer
             /\ \A tm \in engines'[h].timers : tm.kind # "loop"
             /\ Len(engines'[h].sources) = n
             /\ engines'[h].sources[n].offset = e.loopEnd
             /\ engines'[h].sources[n].lane = releaseLane
             /\ engines'[h].sources[n].startAt = now'
             /\ Slot(engines'[h], releaseLane) = n
             /\ GainAt(LaneGain(engines'[h], e.activeSource), now')
                  = GainAt(LaneGain(e, e.activeSource), now')
             /\ \A t \in now'..(now' + CROSSFADE_DURATION - 1) :
                   GainAt(LaneGain(engines'[h], e.activeSource), t + 1)
                     <= GainAt(LaneGain(engines'[h], e.activeSource), t)
             /\ Silent(LaneGain(engines'[h], e.activeSource), now' + CROSSFADE_DURATION)
             /\ Silent(LaneGain(engines'[h], releaseLane), now')
             /\ GainAt(LaneGain(engines'[h], releaseLane), now' + 1) > 0
             /\ GainAt(LaneGain(engines'[h], releaseLane), now' + CROSSFADE_DURATION) = 1000
       /\ ( /\ ev'.kind = "frame"
            /\ h \in Processed(gesture')
            /\ handStates[h].isInRelease /\ handStates'[h].isInRelease )
          => /\ handStates'[h].gainSmooth
                  = (GAIN_SMOOTHING * RELEASE_GAIN
                       + (100 - GAIN_SMOOTHING) * handStates[h].gainSmooth) \div 100
             /\ audioParams'[h].gain = handStates'[h].gainSmooth
       /\ ( /\ ev'.kind = "frame"
            /\ h \notin Processed(gesture')
            /\ handStates[h].isInRelease /\ handStates'[h].isInRelease )
          => audioParams'[h].gain = RELEASE_GAIN]_vars

\* The closed hand was confirmed on a note in sustain, and a frame later the
\* hand is still in release.
C10_HeldInRelease ==
  /\ ev.kind = "frame"
  /\ handStates["Right"].isInRelease
  /\ gesture["Right"].sent = "none"
  /\ engines["Right"].playState = "release"
  /\ \E i \in Nodes(engines["Right"]) :
        /\ engines["Right"].sources[i].offset = engines["Right"].loopEnd
        /\ engines["Right"].sources[i].createdAt
             >= engines["Right"].sources[NoteSource(engines["Right"])].createdAt
                  + engines["Right"].loopStart
        /\ engines["Right"].sources[i].createdAt < now

\* Hand h was playing and is not handled on the frame this step processes;
\* SinceSeen is the time since the last frame that handled it.
LostWhilePlaying(h) ==
  /\ ev'.kind = "frame"
  /\ h \notin Processed(gesture')
  /\ handStates[h].wasPlaying

SinceSeen(h) == now' - handStates[h].lastSeenMs

\* The frame sends nothing to the engine of hand h.
EngineUntouched(h) == engines'[h] = Rendered(engines, now')[h]

\* C11 (as claimed): on every frame on which a playing hand is not detected
\* and at most 600 ms have passed since it was last seen, the AudioParams of
\* the hand are those computed on the last frame that detected it, nothing is
\* sent to its engine and its HandState is unchanged.
C11_HeldThroughGrace ==
  [][\A h \in Handedness :
       (LostWhilePlaying(h) /\ SinceSeen(h) <= TRACKING_LOSS_GRACE_MS)
         => /\ audioParams'[h] = gesture[h].params
            /\ EngineUntouched(h)
            /\ handStates'[h] = handStates[h]]_vars

\* C11 (amended): the same, for every hand but the one single-hand mode has
\* not selected on that frame.
C11_HeldThroughGraceUnlessDeselected ==
  [][\A h \in Handedness :
       ( /\ LostWhilePlaying(h) /\ SinceSeen(h) <= TRACKING_LOSS_GRACE_MS
         /\ ~(singleHandMode /\ h # singleHandLatched') )
         => /\ audioParams'[h] = gesture[h].params
            /\ EngineUntouched(h)
            /\ handStates'[h] = handStates[h]]_vars

\* A playing hand was lost for exactly 600 ms and its parameters are held.
C11_HeldAtGraceEnd ==
  /\ ev.kind = "frame"
  /\ handStates["Left"].wasPlaying
  /\ gesture["Left"].sent = "lost"
  /\ now - handStates["Left"].lastSeenMs = TRACKING_LOSS_GRACE_MS
  /\ audioParams["Left"] = gesture["Left"].params
  /\ audioParams["Left"].gain > 0

\* The frame this step processes releases lost hand h: its engine, when a
\* note is playing on it, goes to release, and the HandState is in release
\* from this frame on.
ReleasedAsLost(h) ==
  /\ engines[h].playState \in {"attack", "sustain"} => engines'[h].playState = "release"
  /\ handStates'[h].isInRelease /\ ~handStates'[h].wasPlaying
  /\ handStates'[h].releaseStartTime = now'

\* The frame keeps the note of lost hand h: nothing is sent to its engine
\* and the HandState stays playing.
KeptPlaying(h) ==
  /\ EngineUntouched(h)
  /\ handStates'[h].wasPlaying /\ ~handStates'[h].isInRelease

\* C12 (as claimed): a playing hand that is not detected is released on the
\* first frame that comes more than 3000 ms after it was last seen, and on no
\* frame before.
C12_ReleasedPastMaxHold ==
  [][\A h \in Handedness :
       LostWhilePlaying(h)
         => IF SinceSeen(h) > TRACKING_LOSS_MAX_HOLD_MS
            THEN ReleasedAsLost(h) ELSE KeptPlaying(h)]_vars

\* C12 (amended): the same, for every hand but the one single-hand mode has
\* not selected on that frame.
C12_ReleasedPastMaxHoldUnlessDeselected ==
  [][\A h \in Handedness :
       (LostWhilePlaying(h) /\ ~(singleHandMode /\ h # singleHandLatched'))
         => IF SinceSeen(h) > TRACKING_LOSS_MAX_HOLD_MS
            THEN ReleasedAsLost(h) ELSE KeptPlaying(h)]_vars

\* A hand held through a frame 3000 ms after it was last seen is released
\* on the frame 100 ms later.
C12_ReleasedAfterHold ==
  /\ ev.kind = "frame"
  /\ gesture["Left"].sent = "lost"
  /\ handStates["Left"].isInRelease
  /\ handStates["Left"].releaseStartTime = now
  /\ now - handStates["Left"].lastSeenMs = TRACKING_LOSS_MAX_HOLD_MS + 100
  /\ engines["Left"].playState = "release"
  /\ audioParams["Left"].gain = RELEASE_GAIN

\* C13: on every frame that finds the HandState of a hand in release and
\* confirms no re-open, whether the hand is detected or not, the HandState
\* returns to idle when more than 2000 ms have passed since the release
\* started, and stays in release otherwise.
C13_ReleaseTimesOut ==
  [][\A h \in Handedness :
       ( /\ ev'.kind = "frame"
         /\ handStates[h].isInRelease
         /\ gesture'[h].sent # "retrigger" )
         => IF now' - handStates[h].releaseStartTime > RELEASE_TIMEOUT_MS
            THEN ~handStates'[h].isInRelease /\ ~handStates'[h].wasPlaying
            ELSE handStates'[h].isInRelease /\ ~handStates'[h].wasPlaying]_vars

\* The fist that released the note is still seen 3100 ms later and the
\* HandState is idle again.
C13_TimedOutOnFist ==
  /\ ev.kind = "frame"
  /\ gesture["Right"].sent = "none"
  /\ gesture["Right"].closedSince # NoRun
  /\ handStates["Right"].releaseStartTime > 0
  /\ now - handStates["Right"].releaseStartTime > RELEASE_TIMEOUT_MS
  /\ now - handStates["Right"].releaseStartTime <= RELEASE_TIMEOUT_MS + 1100
  /\ ~handStates["Right"].isInRelease
  /\ ~handStates["Right"].wasPlaying

\* This step calls triggerAttack on engine h.
AttackCall(h) == ev'.kind = "attack" /\ ev'.hand = h

\* Engine e tracks a source on a lane that is audible at time T.
TracksAudibleSource(e, T) ==
  \E k \in {1, 2} : Slot(e, k) # NoNode /\ ~Silent(LaneGain(e, k), T)

\* C14: triggerAttack on an engine in attack or sustain that tracks an
\* audible source leaves the engine as it is: no source, no timer, the same
\* playState, activeSource, lane gains and slots.
C14_AttackWhilePlayingIsNoOp ==
  [][\A h \in Handedness :
       ( /\ AttackCall(h)
         /\ engines[h].playState \in {"attack", "sustain"}
         /\ TracksAudibleSource(engines[h], now') )
         => EngineUntouched(h)]_vars

\* triggerAttack was called on a note in sustain on the looping sample.
C14_AttackDuringSustain ==
  /\ ev.kind = "attack"
  /\ engines["Right"].playState = "sustain"
  /\ engines["Right"].useASR
  /\ TracksAudibleSource(engines["Right"], now)
  /\ \A i \in Nodes(engines["Right"]) : engines["Right"].sources[i].createdAt < now

\* This step calls triggerRelease on engine h.
ReleaseCall(h) == ev'.kind = "release" /\ ev'.hand = h

\* C15: triggerRelease on an engine that is idle or already in release
\* leaves the engine as it is: no source, no timer scheduled or cancelled,
\* the same lane gains and playState.
C15_ReleaseWhileIdleOrReleasingIsNoOp ==
  [][\A h \in Handedness :
       (ReleaseCall(h) /\ engines[h].playState \in {"idle", "release"})
         => EngineUntouched(h)]_vars

\* triggerRelease was called a second time during the release crossfade.
C15_ReleasedTwice ==
  /\ ev.kind = "release"
  /\ engines["Right"].playState = "release"
  /\ \E i \in Nodes(engines["Right"]) :
        /\ engines["Right"].sources[i].onended = "releaseEnded"
        /\ engines["Right"].sources[i].st = "playing"
        /\ engines["Right"].sources[i].createdAt < now
        /\ now < engines["Right"].sources[i].createdAt + CROSSFADE_DURATION
  /\ \A i \in Nodes(engines["Right"]) : engines["Right"].sources[i].createdAt < now

\* playState of engine e claims a note but neither slot holds a source.
StuckWithoutSource(e) ==
  /\ e.playState \in {"attack", "sustain"}
  /\ e.sourceNode = NoNode /\ e.sourceNode2 = NoNode

\* C16: triggerAttack on an engine whose playState is attack or sustain
\* while both source slots are empty starts the requested note in that call:
\* a source at offset 0 that plays at once on lane 1 at full gain, tracked in
\* sourceNode, with playState attack and the sustain timer armed on a
\* looping sample, playState sustain on a one-shot.
C16_StuckEngineStartsNote ==
  [][\A h \in Handedness :
       (AttackCall(h) /\ StuckWithoutSource(engines[h]))
         => LET e == engines[h]
                n == Len(e.sources) + 1
            IN /\ Len(engines'[h].sources) = n
               /\ engines'[h].sources[n].offset = 0
               /\ engines'[h].sources[n].lane = 1
               /\ engines'[h].sources[n].startAt = now'
               /\ engines'[h].sources[n].st = "playing"
               /\ engines'[h].sourceNode = n
               /\ engines'[h].activeSource = 1
               /\ GainAt(engines'[h].sourceGain1, now') = 1000
               /\ engines'[h].playState = (IF e.useASR THEN "attack" ELSE "sustain")
               /\ e.useASR => \E tm \in engines'[h].timers \ e.timers :
                                 tm.kind = "sustain" /\ tm.at = now' + e.loopStart]_vars

\* A note was started while the sustain timer of a note that lost its source
\* was still pending: two sustain timers wait.
C16_StartedFromStuck ==
  /\ ev.kind = "attack"
  /\ engines["Right"].playState = "attack"
  /\ engines["Right"].sourceNode = Len(engines["Right"].sources)
  /\ engines["Right"].sources[engines["Right"].sourceNode].createdAt = now
  /\ \E i \in Nodes(engines["Right"]) :
        /\ engines["Right"].sources[i].onended = "cleanup"
        /\ engines["Right"].sources[i].st = "ended"
        /\ engines["Right"].sources[i].endAt > now
        /\ \E tm \in engines["Right"].timers :
              /\ tm.kind = "sustain"
              /\ tm.at = engines["Right"].sources[i].createdAt + engines["Right"].loopStart

\* This step completed the fetch of a load of engine h.
DecodedStep(h) == ev'.kind = "decoded" /\ ev'.hand = h

\* The load this step completed, and its file.
DecodedLoad(h) == engines[h].loads[ev'.id]

DecodedFile(h) == SampleFiles[DecodedLoad(h).path]

\* The step made the recursive call: the completed load is replaced by one
\* with the next retry count.
RetriedStep(h) ==
  /\ Len(engines'[h].loads) = Len(engines[h].loads)
  /\ engines'[h].loads[Len(engines'[h].loads)].retryCount = DecodedLoad(h).retryCount + 1

\* The step changed nothing of the sample the engine holds.
LoadedSampleKept(h) ==
  /\ engines'[h].buffer = engines[h].buffer
  /\ engines'[h].loopStart = engines[h].loopStart
  /\ engines'[h].loopEnd = engines[h].loopEnd
  /\ engines'[h].useASR = engines[h].useASR
  /\ engines'[h].isLoaded = engines[h].isLoaded
  /\ engines'[h].playState = engines[h].playState

\* C17: a looping sample whose loop points are not acceptable is reselected
\* and reloaded while fewer than 5 retries were made, no load ever carries a
\* retry count above 5, and after the fifth retry the sample is accepted: the
\* engine is loaded with it, in ASR mode, with its buffer and loop points.
\* Every pending load comes to an end.
C17_BadLoopRetriedThenAccepted ==
  /\ [](\A h \in Handedness : \A i \in 1..Len(engines[h].loads) :
          engines[h].loads[i].retryCount <= 5)
  /\ [][\A h \in Handedness :
          (/\ DecodedStep(h)
           /\ DecodedFile(h).decodes
           /\ DecodedFile(h).duration >= ASR_MIN_DURATION
           /\ ~DecodedFile(h).isAcceptable)
            => IF DecodedLoad(h).retryCount < 5
               THEN RetriedStep(h) /\ LoadedSampleKept(h)
               ELSE /\ Len(engines'[h].loads) = Len(engines[h].loads) - 1
                    /\ engines'[h].isLoaded
                    /\ engines'[h].useASR
                    /\ engines'[h].buffer = DecodedLoad(h).path
                    /\ engines'[h].loopStart = DecodedFile(h).loopStart
                    /\ engines'[h].loopEnd = DecodedFile(h).loopEnd]_vars
  /\ \A h \in Handedness : (engines[h].loads # <<>>) ~> (engines[h].loads = <<>>)

\* The badly looping sample has just become the loaded one, which takes
\* five rejected loads before it.
C17_BadLoopAccepted ==
  /\ ev.kind = "decoded"
  /\ engines["Right"].loads = <<>>
  /\ engines["Right"].isLoaded
  /\ engines["Right"].useASR
  /\ ~SampleFiles[engines["Right"].buffer].isAcceptable

\* C18 (as claimed): a load that fails is retried with another selection
\* while fewer than 5 retries were made, no load carries a retry count above
\* 5, and the failure after the fifth retry ends the call and leaves
\* playState, buffer, loop points, useASR, isLoaded and currentSample as they
\* were before the call.
C18_FailedLoadLeavesSampleState ==
  /\ [](\A h \in Handedness : \A i \in 1..Len(engines[h].loads) :
          engines[h].loads[i].retryCount <= 5)
  /\ [][\A h \in Handedness :
          (DecodedStep(h) /\ ~DecodedFile(h).decodes)
            => IF DecodedLoad(h).retryCount < 5
               THEN /\ RetriedStep(h)
                    /\ engines'[h].loads[Len(engines'[h].loads)].path # DecodedLoad(h).path
               ELSE /\ Len(engines'[h].loads) = Len(engines[h].loads) - 1
                    /\ LoadedSampleKept(h)
                    /\ engines'[h].currentSample = DecodedLoad(h).was]_vars

\* The sample positions 30 % and 70 % into the analysed buffer.
LpTargetStartSample == (3 * lpBuffer.length) \div 10

LpTargetEndSample == (7 * lpBuffer.length) \div 10

\* Result r names a pair of the candidates starts and ends whose RMS values
\* differ least, and is acceptable exactly when that difference is at most
\* 5 % of the average RMS and the loop is 0.4 s to 4.0 s long.
BestPairNamed(r, starts, ends) ==
  \E i \in 1..Len(starts), j \in 1..Len(ends) :
    /\ r.loopStart = SecondsOf(lpBuffer, starts[i].sample)
    /\ r.loopEnd = SecondsOf(lpBuffer, ends[j].sample)
    /\ \A i2 \in 1..Len(starts), j2 \in 1..Len(ends) :
         Abs(starts[i].rms - ends[j].rms) <= Abs(starts[i2].rms - ends[j2].rms)
    /\ r.isAcceptable <=>
         /\ 200 * Abs(starts[i].rms - ends[j].rms) <= 5 * (starts[i].rms + ends[j].rms)
         /\ r.loopEnd - r.loopStart >= 400 * TicksPerMs
         /\ r.loopEnd - r.loopStart <= 4000 * TicksPerMs

\* The candidates lie on a 2 ms grid within 0.15 s of the target sample.
CandidatesInWindow(cands, targetSample) ==
  \A k \in 1..Len(cands) :
    /\ Abs(cands[k].sample - targetSample) * 1000 <= 150 * lpBuffer.sampleRate
    /\ k > 1 => (cands[k].sample - cands[k - 1].sample) * 1000 = 2 * lpBuffer.sampleRate

LoopPointsAsSearched(r) ==
  \E starts \in {candidatesAround(lpBuffer, LpTargetStartSample)} :
    \E ends \in {candidatesAround(lpBuffer, LpTargetEndSample)} :
      /\ CandidatesInWindow(starts, LpTargetStartSample)
      /\ CandidatesInWindow(ends, LpTargetEndSample)
      /\ BestPairNamed(r, starts, ends)

PkFallbacks == {FallbackCello, FallbackViola, FallbackTrombone}

PkFallbackOfGroup ==
  IF pkGroup = "strings:cello" THEN FallbackCello
  ELSE IF pkGroup = "strings:viola" THEN FallbackViola
  ELSE FallbackTrombone

\* C20: the selection returns the default path of the requested group
\* exactly when the catalog has no sample of that group; when it has one, the
\* layer and pitch-mode filtering leave at least one candidate and the
\* returned path is an entry of the group's catalog.
C20_FallbackOnlyWithoutCandidates ==
  pkResult # NoPath
    => /\ pkResult \in PkFallbacks <=> Len(pkCatalog) = 0
       /\ Len(pkCatalog) = 0 => pkResult = PkFallbackOfGroup
       /\ Len(pkCatalog) > 0
            => /\ Len(PkCandidates) > 0
               /\ \E i \in 1..Len(pkCatalog) : pkCatalog[i].path = pkResult

\* A sample was selected for a layer the trombone catalog has no sample of,
\* in a pitch mode that narrows the candidates.
C20_SelectedDespiteMissingLayer ==
  /\ pkResult # NoPath
  /\ pkGroup = "brass:trombone"
  /\ Len(pkCatalog) > 0
  /\ \A i \in 1..Len(pkCatalog) : pkCatalog[i].layer # pkLayer
  /\ Len(PkCandidates) < Len(pkCatalog)

\* C21 (as claimed): the engine moves a note from attack to sustain exactly
\* when loopStart has elapsed since the attack (or retrigger) that started
\* that note: a step that takes playState from attack to sustain happens
\* loopStart after the note's source was created, and no note is still in
\* attack after that time.
C21_SustainAtLoopStartOfOwnAttack ==
  [][\A h \in Handedness :
       LET e == engines[h] IN
       /\ (e.useASR /\ e.playState = "attack" /\ engines'[h].playState = "sustain")
            => now' = e.sources[NoteSource(e)].createdAt + e.loopStart
       /\ (engines'[h].useASR /\ engines'[h].playState = "attack"
             /\ engines'[h].sourceNode # NoNode)
            => now' <= engines'[h].sources[NoteSource(engines'[h])].createdAt
                         + engines'[h].loopStart]_vars

\* The sample a note of engine e is played from.
SampleUnderNote(e) == <<e.buffer, e.loopStart, e.loopEnd, e.useASR>>

\* C22 (as claimed): from the attack of a note until the engine is back in
\* idle, buffer, loopStart, loopEnd and useASR do not change: no step that
\* begins and ends with a note in progress changes any of them.
C22_SampleFixedDuringNote ==
  [][\A h \in Handedness :
       (engines[h].playState # "idle" /\ engines'[h].playState # "idle")
         => SampleUnderNote(engines'[h]) = SampleUnderNote(engines[h])]_vars

\* The nodes of engine e that have been started and have not ended.
PlayingNodes(e) == {i \in Nodes(e) : e.sources[i].st = "playing"}

\* The timers of engine e whose callback stops the node they captured.
StopTimers(e) ==
  {tm \in e.timers : tm.kind \in {"crossfadeCleanup", "oldAttackStop",
                                  "retriggerCleanup", "releaseCleanup"}}

\* Node i of engine e can still be stopped: a slot refers to it or a pending
\* timer will stop it.
Stoppable(e, i) ==
  \/ e.sourceNode = i
  \/ e.sourceNode2 = i
  \/ \E tm \in StopTimers(e) : tm.node = i

\* C23 (as claimed): every source that has been started and has not ended is
\* referenced by sourceNode or sourceNode2 or has a pending timer that will
\* stop it; and once playState is idle and no stop timer is pending, no
\* source is playing.
C23_NoOrphanSource ==
  \A h \in Handedness :
    LET e == engines[h] IN
    /\ \A i \in PlayingNodes(e) : Stoppable(e, i)
    /\ ( /\ e.playState = "idle"
         /\ StopTimers(e) = {}
         /\ \A tm \in e.timers : tm.kind # "stopSourceNodes" )
       => PlayingNodes(e) = {}

\* The playing nodes of engine e created after time T.
StartedAfter(e, T) == {i \in PlayingNodes(e) : e.sources[i].createdAt > T}

\* C24 (as claimed): the delayed stopSourceNodes of a stopCurrentSound never
\* touches a note started after the stop was requested: when its timer runs
\* and a source created since the request is playing, the callback stops no
\* such source and leaves both lane gains and activeSource as they were.
C24_DelayedStopSparesLaterNote ==
  [][\A h \in Handedness :
       LET e == engines[h]
           requestedAt == now' - (FADE_OUT_DURATION + 50)
       IN (ev'.kind = "stopSourceNodes" /\ ev'.hand = h
             /\ StartedAfter(e, requestedAt) # {})
            => /\ \A i \in StartedAfter(e, requestedAt) :
                    engines'[h].sources[i].st = "playing"
               /\ GainAt(engines'[h].sourceGain1, now') = GainAt(e.sourceGain1, now')
               /\ GainAt(engines'[h].sourceGain2, now') = GainAt(e.sourceGain2, now')
               /\ engines'[h].activeSource = e.activeSource]_vars

\* C25 (as claimed): after every frame, a tracked hand whose HandState has
\* wasPlaying = true has its engine in attack or in sustain.
C25_PlayingHandHasSoundingEngine ==
  ev.kind = "frame"
    => \A h \in Processed(gesture) :
         handStates[h].wasPlaying => engines[h].playState \in {"attack", "sustain"}

\* The loop timers engine e2 has that engine e had not.
ArmedLoopTimers(e, e2) ==
  {tm \in e2.timers : tm.kind = "loop" /\ tm.id >= e.nextTimerId}

\* C26 (as claimed): whenever a loop-crossfade timer is armed its delay,
\* loopEnd - loopStart - CROSSFADE_DURATION, is strictly positive, and every
\* sample a load leaves the engine with in ASR mode has a loop longer than
\* the crossfade.
C26_CrossfadeDelayPositive ==
  [][\A h \in Handedness :
       /\ ArmedLoopTimers(engines[h], engines'[h]) # {}
            => timeUntilCrossfade(engines'[h]) > 0
       /\ (ev'.kind = "decoded" /\ engines'[h].isLoaded /\ engines'[h].useASR)
            => engines'[h].loopEnd - engines'[h].loopStart > CROSSFADE_DURATION]_vars

\* The sample groups loadNewSample selects from in an instrument mode.
GroupsOfMode(mode) ==
  IF mode = "strings" THEN {"strings:cello", "strings:viola"} ELSE {"brass:trombone"}

\* A toggleInstrumentMode has yet to swap the sample of the second engine.
TogglePending ==
  \E i \in 1..Len(engines["Left"].loads) : engines["Left"].loads[i].then = "swapRight"

\* C27 (as claimed): once no load of an engine is in flight, its buffer and
\* loop points are those of the load started last: the buffer is the decoded
\* audio of currentSample, with the loop points of that file, and its group
\* belongs to the current instrumentMode (a toggle of the mode being through
\* with both engines).
C27_LastStartedLoadWins ==
  \A h \in Handedness :
    LET e == engines[h] IN
    (e.isRunning /\ e.isLoaded /\ e.loads = <<>> /\ ~TogglePending)
      => /\ e.buffer = e.currentSample
         /\ e.useASR = (SampleFiles[e.currentSample].duration >= ASR_MIN_DURATION)
         /\ e.useASR => /\ e.loopStart = SampleFiles[e.currentSample].loopStart
                        /\ e.loopEnd = SampleFiles[e.currentSample].loopEnd
         /\ e.bufferGroup \in GroupsOfMode(e.instrumentMode)

\* The note state of a HandState.
NoteState(state) ==
  IF state.wasPlaying THEN "playing" ELSE IF state.isInRelease THEN "release" ELSE "idle"

NoteTransitions ==
  {<<"idle", "playing">>, <<"playing", "release">>, <<"release", "playing">>,
   <<"release", "idle">>}

\* C28: in two-hand mode, apart from stop and the mode toggle, every change of
\* a HandState's note state is idle to playing, playing to release, release
\* to playing or release to idle.
C28_NoteStateTransitions ==
  [][(~singleHandMode /\ ~singleHandMode' /\ ev'.kind # "handleStop")
       => \A h \in Handedness :
            \/ NoteState(handStates'[h]) = NoteState(handStates[h])
            \/ <<NoteState(handStates[h]), NoteState(handStates'[h])>> \in NoteTransitions]_vars

\* In two-hand mode a hand has played, was released, and its release has
\* timed out on the last frame.
C28_ReleaseTimedOutToIdle ==
  /\ ~singleHandMode
  /\ ev.kind = "frame"
  /\ \E h \in Handedness :
       /\ NoteState(handStates[h]) = "idle"
       /\ handStates[h].releaseStartTime > 0
       /\ now - handStates[h].releaseStartTime > RELEASE_TIMEOUT_MS
       /\ frameAt = now

\* The changes of playState engine e makes in becoming e2.
PlayStateChange(e, e2) == <<e.playState, e2.playState>>

ClaimedPlayStateChanges ==
  {<<"idle", "attack">>, <<"attack", "sustain">>, <<"sustain", "release">>,
   <<"release", "idle">>, <<"release", "attack">>}

ReleaseTail(e) == SetMax({i \in Nodes(e) : e.sources[i].onended = "releaseEnded"})

\* Engine e2 is idle as the end of a release tail leaves it, and has
\* requested the next sample since e.
IdleAfterTail(e, e2, T) ==
  /\ e2.playState = "idle"
  /\ e2.sourceNode = NoNode
  /\ e2.sourceNode2 = NoNode
  /\ GainAt(e2.sourceGain1, T) = 1000
  /\ GainAt(e2.sourceGain2, T) = 0
  /\ e2.activeSource = 1
  /\ Len(e2.loads) = Len(e.loads) + 1

\* C30 (as claimed): an ASR engine in release leaves that state, unless an
\* attack retriggers it, when the tail of the release ends: on that step it
\* becomes idle with both slots empty, the lane gains at (1, 0) and
\* activeSource = 1 and requests the next sample; and no loop timer starts a
\* crossfade while the engine is in release.
C30_IdleWhenTailEnds ==
  [][\A h \in Handedness :
       LET e == engines[h]
           e2 == engines'[h]
       IN (e.useASR /\ e.playState = "release")
            => /\ (ev'.kind = "ended" /\ ev'.hand = h /\ ev'.id = ReleaseTail(e))
                    => IdleAfterTail(e, e2, now')
               /\ (e2.playState # "release" /\ ev'.kind # "attack")
                    => /\ ev'.kind = "ended"
                       /\ ev'.hand = h
                       /\ ev'.id = ReleaseTail(e)
                       /\ now' = e.sources[ReleaseTail(e)].endAt
                       /\ IdleAfterTail(e, e2, now')
               /\ (ev'.kind = "loop" /\ ev'.hand = h)
                    => /\ Len(e2.sources) = Len(e.sources)
                       /\ e2.sourceGain1 = e.sourceGain1
                       /\ e2.sourceGain2 = e.sourceGain2]_vars

\* Hand h was playing when the frame that led to the present state did not
\* handle it, and two more frames fit in the time the clock covers.
HeldGone(h) ==
  /\ gesture[h].sent = "lost"
  /\ handStates[h].wasPlaying
  /\ now + 2 * SetMax(GoneDts) <= MaxNow

\* The HandState of hand h is idle and its output gain is 0.
IdleAndSilent(h) ==
  /\ ~handStates[h].wasPlaying
  /\ ~handStates[h].isInRelease
  /\ audioParams[h].gain = 0

\* The engine of hand h has been sent the release of a lost hand.
ReleasedGone(h) ==
  /\ ~handStates[h].wasPlaying
  /\ handStates[h].releaseStartTime > handStates[h].lastSeenMs + TRACKING_LOSS_MAX_HOLD_MS
  /\ engines[h].playState \in {"release", "idle"}

\* C31: a hand that was playing and is not detected on any later frame has a
\* release sent to its engine in the end, and its HandState returns to idle
\* with output gain 0 in the end; once it is idle and silent it stays so on
\* every frame that does not detect it.
C31_LostHandSettles ==
  /\ \A h \in Handedness :
       /\ HeldGone(h) ~> (ReleasedGone(h) \/ h \in Processed(gesture))
       /\ HeldGone(h) ~> (IdleAndSilent(h) \/ h \in Processed(gesture))
  /\ [][\A h \in Handedness :
         (IdleAndSilent(h) /\ ev'.kind = "frame" /\ h \notin Processed(gesture'))
           => IdleAndSilent(h)']_vars

\* The right hand, last seen on the second frame, was held, released as lost
\* and has come to rest.
C31_GoneHandAtRest ==
  /\ gesture["Right"].sent = "lost"
  /\ handStates["Right"].lastSeenMs = 200
  /\ handStates["Right"].releaseStartTime > 200 + TRACKING_LOSS_MAX_HOLD_MS
  /\ IdleAndSilent("Right")
  /\ engines["Right"].playState = "idle"

\* Every step of the browser under SpecGone is one the scheduling names.
GoneStepsAreDue == [][ev'.kind # "toggleSingleHand" => GoneDue]_vars

\* The timers engine e2 holds that engine e did not.
ArmedTimers(e, e2) == {tm \in e2.timers : tm.id >= e.nextTimerId}

\* The ended event of node i of engine h is handled on this step, and the
\* node is one a one-shot attack started.
OneShotEnds(h, i) ==
  /\ ev'.kind = "ended" /\ ev'.hand = h /\ ev'.id = i
  /\ engines[h].sources[i].onended = "oneShot"

\* C33 (as claimed): while the loaded sample is a one-shot, an attack that
\* starts a note starts exactly one source; no sustain or loop timer is
\* armed; when the source of the note ends the engine becomes idle and
\* requests the next sample; and the end of a one-shot source leaves the
\* play state and the tracked source of a note started later alone.
C33_OneShotPlaysOnce ==
  [][\A h \in Handedness :
       LET e == engines[h]
           e2 == engines'[h]
       IN (e.isLoaded /\ ~e.useASR /\ ~e2.useASR)
            => /\ (ev'.kind = "attack" /\ ev'.hand = h /\ e2.playState # e.playState)
                    => /\ Len(e2.sources) = Len(e.sources) + 1
                       /\ e2.sourceNode = NewestNode(e2)
               /\ \A tm \in ArmedTimers(e, e2) : tm.kind \notin {"sustain", "loop"}
               /\ \A i \in Nodes(e) :
                    /\ (OneShotEnds(h, i) /\ e.sourceNode = i /\ e.playState # "idle")
                         => /\ e2.playState = "idle"
                            /\ Len(e2.loads) = Len(e.loads) + 1
                    /\ (OneShotEnds(h, i) /\ e.sourceNode \notin {i, NoNode})
                         => /\ e2.playState = e.playState
                            /\ e2.sourceNode = e.sourceNode]_vars


\* The step is a loop timer of h that finds the engine in sustain with a
\* buffer and its lanes: the call of performCrossfade.
LoopCrossfade(h) ==
  /\ ev'.kind = "loop" /\ ev'.hand = h
  /\ engines[h].playState = "sustain"
  /\ engines[h].buffer # NoBuffer /\ engines[h].graph

\* The sustain of a looping note: a loop crossfade is scheduled.
Looping(e) == e.playState = "sustain" /\ e.loopSchedulerId # NoTimer

\* C34: in sustain, every loop crossfade starts the new source at loopStart
\* on the lane that was inactive, flips activeSource and tracks the new source
\* in that lane's slot; between two loop crossfades of a sustain nothing else
\* changes activeSource, so successive crossfades alternate lanes, and in
\* the sustain of a looping note the slot of the active lane holds the
\* newest source.
C34_CrossfadesAlternateLanes ==
  [][\A h \in Handedness :
       LET e == engines[h]
           e2 == engines'[h]
           to == OtherLane(e.activeSource)
       IN /\ LoopCrossfade(h) =>
               /\ Len(e2.sources) = Len(e.sources) + 1
               /\ e2.sources[NewestNode(e2)].lane = to
               /\ e2.sources[NewestNode(e2)].offset = e.loopStart
               /\ e2.sources[NewestNode(e2)].startAt = now'
               /\ e2.activeSource = to
               /\ Slot(e2, to) = NewestNode(e2)
               /\ e2.playState = "sustain"
          /\ (Looping(e) /\ Looping(e2) /\ e2.activeSource # e.activeSource)
               => LoopCrossfade(h)
          /\ Looping(e2) => Slot(e2, e2.activeSource) = NewestNode(e2)]_vars

\* Witness of C34: a held note has crossed over three times (lanes 2, 1, 2)
\* and the third loop source is tracked on lane 2.
C34_ThirdCrossfade ==
  LET e == engines["Right"]
  IN /\ ev.kind = "loop" /\ ev.hand = "Right"
     /\ e.playState = "sustain"
     /\ Len(e.sources) = 4
     /\ \A i \in 2..4 : e.sources[i].offset = e.loopStart
     /\ e.sources[2].lane = 2 /\ e.sources[3].lane = 1 /\ e.sources[4].lane = 2
     /\ e.activeSource = 2 /\ e.sourceNode2 = 4


\* The loop-crossfade timers of an engine that have not fired.
LoopTimers(e) == {tm \in e.timers : tm.kind = "loop"}

\* C35: at any time at most one loop-crossfade timer is pending per engine,
\* and a pending one is the timer engine.loopSchedulerId names, the one that
\* triggerRelease, swapSample and stopAudio cancel.
C35_OneLoopTimer ==
  \A h \in Handedness :
    /\ Cardinality(LoopTimers(engines[h])) <= 1
    /\ \A tm \in LoopTimers(engines[h]) : tm.id = engines[h].loopSchedulerId

\* The hand that a frame in single-hand mode leaves selected.
SelectedAfterFrame == singleHandLatched'

\* C36: in single-hand mode, after every frame the HandState of a hand that
\* is not the selected one has wasPlaying = false and isInRelease = false and
\* its AudioParams have gain 0; if it was playing or in release before the
\* frame, its engine was sent a release.
C36_OtherHandForcedIdle ==
  [][(ev'.kind = "frame" /\ singleHandMode) =>
       \A h \in Handedness \ {SelectedAfterFrame} :
         /\ ~handStates'[h].wasPlaying
         /\ ~handStates'[h].isInRelease
         /\ audioParams'[h].gain = 0
         /\ (handStates[h].wasPlaying \/ handStates[h].isInRelease)
              => engines'[h] =
                   Rendered([engines EXCEPT ![h] = triggerRelease(@, now')], now')[h]]_vars

\* Witness of C36: in single-hand mode the left hand held a note, a frame
\* with two hands has selected the right hand, and the left engine is in
\* release with the left HandState idle.
C36_DeselectedHandReleased ==
  /\ singleHandMode /\ ev.kind = "frame" /\ ev.id = 2
  /\ singleHandLatched = "Right"
  /\ ~handStates["Left"].wasPlaying /\ ~handStates["Left"].isInRelease
  /\ audioParams["Left"].gain = 0
  /\ engines["Left"].playState = "release"
  /\ \E i \in 1..Len(engines["Left"].sources) :
       engines["Left"].sources[i].createdAt = now /\ engines["Left"].sources[i].offset > 0

\* C37: in single-hand mode, once a hand is latched, a frame with one detected
\* hand is processed by the latched HandState and engine whatever label the
\* tracker reports, and a frame with no hand processes none;
\* singleHandLatched changes only on a frame with two detected hands, on a
\* stop or on a toggle of the mode.
C37_LatchedHandKeepsDriving ==
  [][/\ (singleHandMode /\ singleHandLatched # NoHand /\ ev'.kind = "frame" /\ ev'.id <= 1)
          => /\ singleHandLatched' = singleHandLatched
             /\ Processed(gesture') = (IF ev'.id = 1 THEN {singleHandLatched} ELSE {})
     /\ (singleHandLatched # NoHand /\ singleHandLatched' # singleHandLatched)
          => \/ ev'.kind = "frame" /\ ev'.id = 2
             \/ ev'.kind \in {"handleStop", "toggleSingleHand"}]_vars

\* Witness of C37: the left hand is latched and holds a note, and a frame
\* that reports its one hand as Right has been processed by the left
\* HandState.
C37_FlippedLabelKeepsNote ==
  /\ singleHandMode /\ singleHandLatched = "Left"
  /\ ev.kind = "frame" /\ ev.id = 1 /\ ev.hand = "Right"
  /\ Processed(gesture) = {"Left"}
  /\ handStates["Left"].wasPlaying /\ handStates["Left"].lastSeenMs = now
  /\ engines["Left"].playState = "attack" /\ engines["Right"].playState = "idle"

\* C38: in two-hand mode every detected hand is processed by a HandState of
\* its own, whatever labels the tracker reports: a frame with n detected hands
\* processes n HandStates, so none takes two hands' landmarks and no detected
\* hand is treated as lost.
C38_EachHandItsOwnState ==
  [][(ev'.kind = "frame" /\ ~singleHandMode) =>
       Cardinality(Processed(gesture')) = ev'.id]_vars


\* The candidates a selection starts from, before the pitch mode is applied.
PkUnfiltered == candidatesOf(pkGroup, pkCatalog, pkLayer)

PitchesOf(list) == {list[i].midiNote : i \in 1..Len(list)}

OctavesOf(list) == {list[i].octave : i \in 1..Len(list)}

\* The pitches of the samples a mode leaves of the candidates.
BandOf(mode) == PitchesOf(applyPitchMode(PkUnfiltered, mode, pkGroup))

\* Three bands of the pitches: ascending, pairwise disjoint, covering every
\* pitch, and differing in size by at most one.
EvenSplit(pitches, low, mid, high) ==
  /\ low \cup mid \cup high = pitches
  /\ low \cap mid = {} /\ mid \cap high = {} /\ low \cap high = {}
  /\ \A a \in low, b \in mid \cup high : a < b
  /\ \A a \in mid, b \in high : a < b
  /\ \A x \in {low, mid, high}, y \in {low, mid, high} :
       Cardinality(x) - Cardinality(y) <= 1

\* The octaves in the middle of a set of octaves (two when their number is
\* even).
MedianOctaves(octaves) ==
  {o \in octaves :
     /\ 2 * Cardinality({x \in octaves : x < o}) <= Cardinality(octaves)
     /\ 2 * Cardinality({x \in octaves : x > o}) <= Cardinality(octaves)}

\* The modes of a brass group with three octaves or more select the lowest,
\* a median and the highest octave.
BrassByOctave ==
  (pkGroup = "brass:trombone" /\ Cardinality(OctavesOf(PkUnfiltered)) >= 3) =>
    /\ OctavesOf(applyPitchMode(PkUnfiltered, "low", pkGroup))
         = {SetMin(OctavesOf(PkUnfiltered))}
    /\ OctavesOf(applyPitchMode(PkUnfiltered, "high", pkGroup))
         = {SetMax(OctavesOf(PkUnfiltered))}
    /\ \E o \in MedianOctaves(OctavesOf(PkUnfiltered)) :
         OctavesOf(applyPitchMode(PkUnfiltered, "mid", pkGroup)) = {o}
    /\ \A mode \in {"low", "mid", "high"} :
         \A i \in 1..Len(PkUnfiltered) :
           PkUnfiltered[i].octave \in OctavesOf(applyPitchMode(PkUnfiltered, mode, pkGroup))
             => PkUnfiltered[i].midiNote \in BandOf(mode)

\* The sample returned has a pitch of its mode's band, and mode all leaves
\* the candidates as they are.
ReturnedInBand ==
  /\ PkSelected => PkReturnedMidi \in BandOf(pkMode)
  /\ applyPitchMode(PkUnfiltered, "all", pkGroup) = PkUnfiltered

\* C39 as claimed: on a strings group the modes low, mid and high split the
\* pitches into three ascending disjoint bands that cover every pitch and
\* differ in size by at most one, whatever the number of pitches.
C39_ClaimedBands ==
  /\ pkGroup # "brass:trombone" =>
       EvenSplit(PitchesOf(PkUnfiltered), BandOf("low"), BandOf("mid"), BandOf("high"))
  /\ BrassByOctave
  /\ ReturnedInBand

\* C39: on a strings group with at least three distinct pitches the modes
\* low, mid and high split the pitches into three ascending disjoint bands
\* that cover every pitch and differ in size by at most one, and with fewer
\* pitches every mode keeps every sample; on brass with at least three
\* octaves the modes select the lowest, a median and the highest octave; the
\* sample returned has a pitch of its mode's band and mode all restricts
\* nothing.
C39_PitchBands ==
  /\ pkGroup # "brass:trombone" =>
       IF Cardinality(PitchesOf(PkUnfiltered)) >= 3
       THEN EvenSplit(PitchesOf(PkUnfiltered), BandOf("low"), BandOf("mid"), BandOf("high"))
       ELSE \A mode \in PitchModes : applyPitchMode(PkUnfiltered, mode, pkGroup) = PkUnfiltered
  /\ BrassByOctave
  /\ ReturnedInBand

\* Witness of C39: a viola catalog of five samples with four distinct
\* pitches, which the modes split 2, 1 and 1, and in mode mid the sample of
\* the one pitch of the middle band was returned.
C39_MidBandOfFour ==
  /\ pkGroup = "strings:viola" /\ pkMode = "mid" /\ PkSelected
  /\ Len(pkCatalog) = 5
  /\ Cardinality(PitchesOf(PkUnfiltered)) = 4
  /\ Cardinality(BandOf("low")) = 2 /\ Cardinality(BandOf("mid")) = 1
  /\ Cardinality(BandOf("high")) = 1
  /\ BandOf("mid") = {PkReturnedMidi}

\* --- The hold of a lost hand and the ranges of the parameters -----------------
\* The AudioParams of hand h after the frame are those held in its HandState
\* with the delay time at nine tenths and the feedback at 49 fiftieths.
HeldDecayed(h) ==
  audioParams'[h] = [handStates[h].lastParams EXCEPT !.delayTime = (@ * 9) \div 10,
                                                     !.feedback = (@ * 49) \div 50]

InHold(h) ==
  /\ LostWhilePlaying(h)
  /\ SinceSeen(h) > TRACKING_LOSS_GRACE_MS
  /\ SinceSeen(h) <= TRACKING_LOSS_MAX_HOLD_MS

\* C32 (as claimed): on every frame on which a playing hand has not been
\* detected for more than 600 ms and at most 3000 ms, the held delayTime is
\* multiplied by 0.9 and the held feedback by 0.98, the other five parameters
\* keep their held values, no release is sent and wasPlaying stays true.
C32_HoldDecays ==
  [][\A h \in Handedness : InHold(h) => (HeldDecayed(h) /\ KeptPlaying(h))]_vars

\* C32 (amended): the same, for every hand but the one single-hand mode has
\* not selected on that frame.
C32_HoldDecaysUnlessDeselected ==
  [][\A h \in Handedness :
       (InHold(h) /\ ~(singleHandMode /\ h # singleHandLatched'))
         => (HeldDecayed(h) /\ KeptPlaying(h))]_vars

\* Witness of C32: the left hand was shaken while it played and has been lost
\* for two frames of the hold; its delay time and feedback have decayed but
\* are not yet 0, and its gain is the gain of the last frame that saw it.
C32_ShakenHandHeld ==
  /\ ev.kind = "frame"
  /\ gesture["Left"].sent = "lost"
  /\ handStates["Left"].wasPlaying
  /\ now - handStates["Left"].lastSeenMs = DropoutDt
  /\ audioParams["Left"] = handStates["Left"].lastParams
  /\ audioParams["Left"].delayTime > 0
  /\ audioParams["Left"].delayTime < gesture["Left"].params.delayTime
  /\ audioParams["Left"].feedback < gesture["Left"].params.feedback
  /\ audioParams["Left"].gain = gesture["Left"].params.gain
  /\ audioParams["Left"].gain > 0

\* The ranges of pitchShift (in millionths), of the five parameters in 1/1000 and of reverbDecay in ms.
InRange(p) ==
  /\ p.pitchShift >= 0 - 80000 /\ p.pitchShift <= 80000
  /\ p.gain >= 0 /\ p.gain <= 1000
  /\ p.filterCutoff >= 0 /\ p.filterCutoff <= 1000
  /\ p.delayTime >= 0 /\ p.delayTime <= 1000
  /\ p.feedback >= 0 /\ p.feedback <= 1000
  /\ p.reverbMix >= 0 /\ p.reverbMix <= 750
  /\ p.reverbDecay >= 300 /\ p.reverbDecay <= 6000

\* C40: the AudioParams of each hand, whatever frame produced them, have
\* |pitchShift| <= 0.08, gain, filterCutoff, delayTime and feedback in [0, 1],
\* reverbMix in [0, 0.75] and reverbDecay in [0.3, 6.0]; so have the
\* parameters held in each HandState.
C40_ParamsInRange ==
  \A h \in Handedness : InRange(audioParams[h]) /\ InRange(handStates[h].lastParams)

\* Witness of C40: a frame detected the shaken left hand while it played, with
\* a pitch shift, a delay time, a feedback and a reverb mix that are not 0.
C40_ShakenHandPlays ==
  /\ ev.kind = "frame"
  /\ gesture["Left"].sent # "lost"
  /\ handStates["Left"].wasPlaying
  /\ audioParams["Left"].pitchShift # 0
  /\ audioParams["Left"].delayTime > 0
  /\ audioParams["Left"].feedback > 0
  /\ audioParams["Left"].reverbMix > 0
  /\ audioParams["Left"].gain > 0

\* A release holds the reverb of the trail: the reverb mix of a hand in
\* release is above 0 with the decay of the hold.
C40_ReverbHeldInRelease ==
  /\ ev.kind = "frame"
  /\ handStates["Left"].isInRelease
  /\ reverbHold["Left"] # NoHold
  /\ audioParams["Left"].reverbMix > 0
  /\ audioParams["Left"].reverbDecay # REVERB_DECAY_DURING_PLAY

\* The hand not selected in single-hand mode was forced idle while a pitch
\* shift was on it.
C40_ForcedIdleKeepsPitch ==
  /\ ev.kind = "frame"
  /\ singleHandMode /\ singleHandLatched = "Right"
  /\ audioParams["Left"].gain = 0
  /\ audioParams["Left"].pitchShift # 0

====
